---- MODULE Spec2Model ----
(***************************************************************************)
(* A model of the text-to-video pipeline's core: the multi-segment TTS     *)
(* timeline stitcher (step3_generate_tts.py), the text-to-timeline         *)
(* realignment matcher (step5_generate_mp4_html.py), the paragraph parser  *)
(* and the vocabulary marker extractor (utils/text_processor.py,           *)
(* utils/voice_role.py).                                                   *)
(*                                                                         *)
(* Texts are sequences of one-character strings.  Times are integers in    *)
(* milliseconds (the code uses float seconds).  Each component has its own *)
(* specification; the variables of the other components stay idle.         *)
(***************************************************************************)
EXTENDS Integers, Sequences, FiniteSets, TLC

VARIABLES
    \* ---- generate_tts_for_file (step3) ----
    segment_texts,   \* the texts of the paragraphs, in order
    seg_i,           \* position of the for loop (1-based; enumerate's i + 1)
    offset_sec,      \* running offset, ms
    global_index,    \* running global index
    all_lrc,         \* the stitched entries so far
    temp_mp3s,       \* the list temp_mp3s (by segment number)
    disk_temps,      \* the temp segment files that exist on disk (by segment number)
    synth,           \* history: per synthesized segment, what the engine and the probe returned
    json_out,        \* the timestamp list written to the JSON file
    json_written,    \* whether the JSON file was written
    mp3_out,         \* whether the final mp3 was produced
    mp3_partial,     \* whether a failed concatenation left a file at the mp3 path
    synth_failed,    \* history: whether a synthesis call raised
    pc_s,            \* "loop" | "done" | "failed" ("idle" under the other specifications)
    \* ---- _align_lrc_to_segments (step5) ----
    lrc_entries,     \* the timestamp entries (their texts)
    segments,        \* the paragraph texts
    md_flat,         \* (paragraph index, normalized token) pairs
    lrc_flat,        \* (entry index, normalized token) pairs
    md_idx,          \* paragraph-side cursor (0-based)
    lrc_i,           \* TTS-side cursor (0-based)
    last_sent_index,
    sent_index_by_entry,
    aligned,         \* the returned list
    sentences_json,  \* the words lists of build_sentences_json, one per paragraph
    iters,           \* number of iterations of the while loop so far
    pc_a,            \* "loop" | "done"
    \* ---- parse_paragraphs_from_txt (utils/text_processor.py) ----
    text_content,    \* the document, as its lines
    lines,           \* text_content.strip().split('\n')
    mode,            \* "notrans" | "alt" once has_any_chinese is known
    p_i,             \* position in lines (0-based)
    pending_role,
    current_english_lines,
    current_chinese,
    paragraphs,      \* the list being built and returned
    para_at,         \* history: per paragraph, how many lines were consumed when it was appended
    pc_p,            \* "start" | "loop" | "done"
    \* ---- extract_bracketed_vocabulary (utils/text_processor.py) ----
    vtext,           \* the text
    pat,             \* which of the six patterns is being applied (1..6)
    vpos,            \* where finditer continues in the text (1-based)
    seen,
    result,
    result_pos,      \* history: per returned term, where its match started
    pc_v,            \* "scan" | "done"
    \* ---- _attach_punctuation_from_source (step3) ----
    at_entries,      \* lrc_entries
    at_source_text,  \* source_text
    at_k,            \* position of the for loop (1-based)
    at_pos,          \* pos, the search cursor (0-based)
    at_result,       \* result
    at_cursor,       \* history: the cursor each handled entry was searched from
    pc_t,            \* "start" | "loop" | "done"
    \* ---- _build_paragraph_section (step2), parse_paragraphs_from_markdown ----
    markdown_content,
    expected_paragraphs, \* the list the section is written from (<<>>: a given document)
    block_lines,     \* history: the lines a one-block document was written with
    md_blocks,       \* the stripped blocks of paragraph_matches
    md_k,            \* position of the for loop over the blocks (1-based)
    md_paragraphs,   \* paragraphs
    pc_m,            \* "build" | "split" | "blocks" | "done"
    \* ---- get_voice_for_role (utils/voice_role.py) ----
    today,           \* the day of the month of the clock
    voice_calls,     \* history: the last two calls (role, parity of the day, voice)
    pc_r,            \* "ready" ("idle" under the other specifications)
    \* ---- two concurrent runs of generate_tts_for_file (step3) ----
    sc_doc,          \* run -> its document (run date, stem of the vocabulary file)
    sc_n,            \* run -> number of non-blank paragraphs
    sc_seg,          \* run -> index of the next paragraph to synthesize
    sc_pc,           \* run -> "loop" | "concatenated" | "done"
    sc_touched,      \* history: the accesses (file, run, write | read | delete)
    \* ---- _ensure_paragraph_structure (step2) ----
    ens_markdown,    \* markdown_content, the document handed in
    ens_expected,    \* expected_paragraphs
    ens_first,       \* the text returned
    ens_parsed,      \* what parse_paragraphs_from_markdown reads from it
    ens_second,      \* the text returned when the result is fixed once more
    pc_e             \* "start" | "fixed" | "read" | "again"

stitchVars == <<segment_texts, seg_i, offset_sec, global_index, all_lrc,
                temp_mp3s, disk_temps, synth, json_out, json_written, mp3_out,
                mp3_partial, synth_failed, pc_s>>

alignVars == <<lrc_entries, segments, md_flat, lrc_flat, md_idx, lrc_i,
               last_sent_index, sent_index_by_entry, aligned, sentences_json,
               iters, pc_a>>

parseVars == <<text_content, lines, mode, p_i, pending_role, current_english_lines,
               current_chinese, paragraphs, para_at, pc_p>>

vocabVars == <<vtext, pat, vpos, seen, result, result_pos, pc_v>>

attachVars == <<at_entries, at_source_text, at_k, at_pos, at_result, at_cursor, pc_t>>

mdVars == <<markdown_content, expected_paragraphs, block_lines, md_blocks, md_k, md_paragraphs, pc_m>>

voiceVars == <<today, voice_calls, pc_r>>

scratchVars == <<sc_doc, sc_n, sc_seg, sc_pc, sc_touched>>

ensureVars == <<ens_markdown, ens_expected, ens_first, ens_parsed, ens_second, pc_e>>

vars == <<stitchVars, alignVars, parseVars, vocabVars, attachVars, mdVars, voiceVars, scratchVars, ensureVars>>

otherThanStitch == <<alignVars, parseVars, vocabVars, attachVars, mdVars, voiceVars, scratchVars, ensureVars>>
otherThanAlign == <<stitchVars, parseVars, vocabVars, attachVars, mdVars, voiceVars, scratchVars, ensureVars>>
otherThanParse == <<stitchVars, alignVars, vocabVars, attachVars, mdVars, voiceVars, scratchVars, ensureVars>>
otherThanVocab == <<stitchVars, alignVars, parseVars, attachVars, mdVars, voiceVars, scratchVars, ensureVars>>
otherThanAttach == <<stitchVars, alignVars, parseVars, vocabVars, mdVars, voiceVars, scratchVars, ensureVars>>
otherThanMd == <<stitchVars, alignVars, parseVars, vocabVars, attachVars, voiceVars, scratchVars, ensureVars>>
otherThanVoice == <<stitchVars, alignVars, parseVars, vocabVars, attachVars, mdVars, scratchVars, ensureVars>>
otherThanScratch == <<stitchVars, alignVars, parseVars, vocabVars, attachVars, mdVars, voiceVars, ensureVars>>
otherThanEnsure == <<stitchVars, alignVars, parseVars, vocabVars, attachVars, mdVars, voiceVars, scratchVars>>

\* _get_audio_duration_sec returns None when the duration cannot be measured.
NoDuration == -1

\* ---------------------------------------------------------------- bounds
MaxSegs == 3
MaxDur == 2
MaxEntries == 3
MaxParas == 2
MaxLines == 4
MaxPieces == 3
MaxTokens == 3
MaxScratchSegs == 2
MaxBlockLines == 3

\* ------------------------------------------------------- sequence helpers
RECURSIVE SumLens(_, _)
\* Total number of local entries of the first n synthesized segments.
SumLens(h, n) == IF n = 0 THEN 0 ELSE SumLens(h, n - 1) + Len(h[n].local)

RECURSIVE SumDurs(_, _)
\* d1 + ... + dn of the first n synthesized segments (all measured).
SumDurs(h, n) == IF n = 0 THEN 0 ELSE SumDurs(h, n - 1) + h[n].dur

IsSpace(c) == c \in {" ", "\n", "\t"}

RECURSIVE LStrip(_)
LStrip(s) == IF s # <<>> /\ IsSpace(Head(s)) THEN LStrip(Tail(s)) ELSE s

RECURSIVE RStrip(_)
RStrip(s) ==
    IF s # <<>> /\ IsSpace(s[Len(s)]) THEN RStrip(SubSeq(s, 1, Len(s) - 1)) ELSE s

\* str.strip()
Strip(s) == LStrip(RStrip(s))

\* ============================================================== step 3
\* One SRT time "HH:MM:SS,mmm" as the code converts it (in ms rather than s).
SrtTime(t) == (t.h * 3600 + t.m * 60 + t.s) * 1000 + t.ms

T(s, ms) == [h |-> 0, m |-> 0, s |-> s, ms |-> ms]

\* An SRT block: its number of lines, whether its second line matches the
\* time pattern, the two times and the text of lines[2:].
Blk(n, ok, st, en, tx) == [nlines |-> n, timeOk |-> ok, st |-> st, en |-> en, text |-> tx]

\* What the engine's SubMaker may hand back for one segment.
SrtContents ==
    { <<Blk(1, FALSE, T(0, 0), T(0, 0), <<>>)>>,
      <<Blk(3, TRUE, T(0, 0), T(1, 0), <<"a">>)>>,
      <<Blk(3, FALSE, T(0, 0), T(0, 0), <<"x">>),
        Blk(3, TRUE, T(0, 500), T(2, 0), <<"b">>)>>,
      <<Blk(3, TRUE, T(0, 0), T(1, 0), <<"a">>),
        Blk(4, TRUE, T(1, 0), T(2, 0), <<"b">>)>> }

\* What ffprobe may report for one segment file: a duration, or nothing.
ProbeResults == {NoDuration} \cup {1000 * k : k \in 1..MaxDur}

SegTexts == { <<>>, <<" ">>, <<"a", " ", "b", ",">> }

RECURSIVE SrtToLrcFrom(_, _)
SrtToLrcFrom(blocks, i) ==
    IF i > Len(blocks) THEN <<>>
    ELSE LET b == blocks[i]
             rest == SrtToLrcFrom(blocks, i + 1)
         IN IF b.nlines >= 3 /\ b.timeOk
            THEN <<[start |-> SrtTime(b.st), end |-> SrtTime(b.en),
                    text |-> Strip(b.text), index |-> i - 1]>> \o rest
            ELSE rest

srt_to_lrc(blocks) == SrtToLrcFrom(blocks, 1)

\* A variant that keeps each entry's segment-local index.
ShiftEntriesKeepIndex(entries, offset, gidx) ==
    [k \in 1..Len(entries) |->
        [entries[k] EXCEPT !.start = @ + offset, !.end = @ + offset]]

\* Lines 238-242: shift by the offset and renumber with the global counter.
ShiftEntries(entries, offset, gidx) ==
    [k \in 1..Len(entries) |->
        [entries[k] EXCEPT !.start = @ + offset, !.end = @ + offset,
                           !.index = gidx + k - 1]]

\* A variant whose fallback is the local end time of the last entry alone.
NextOffsetLocalEnd(offset, dur, shifted) ==
    IF dur # NoDuration THEN offset + dur
    ELSE IF shifted # <<>> THEN shifted[Len(shifted)].end - offset
    ELSE offset

\* A variant that sets the offset to the measured duration instead of adding it.
NextOffsetAssign(offset, dur, shifted) ==
    IF dur # NoDuration THEN dur
    ELSE IF shifted # <<>> THEN shifted[Len(shifted)].end
    ELSE offset

\* Lines 244-248: the offset for the next segment.
NextOffset(offset, dur, shifted) ==
    IF dur # NoDuration THEN offset + dur
    ELSE IF shifted # <<>> THEN shifted[Len(shifted)].end
    ELSE offset

\* _TRAILING_PUNCT
TrailingPunct == {".", ",", "!", "?", ";", ":", "\"", "'"}

RECURSIVE RStripPunct(_)
RStripPunct(s) ==
    IF s # <<>> /\ s[Len(s)] \in TrailingPunct
    THEN RStripPunct(SubSeq(s, 1, Len(s) - 1)) ELSE s

LowerAlpha == <<"a", "b", "c", "d", "e", "f", "g", "h", "i", "j", "k", "l", "m",
               "n", "o", "p", "q", "r", "s", "t", "u", "v", "w", "x", "y", "z">>
UpperAlpha == <<"A", "B", "C", "D", "E", "F", "G", "H", "I", "J", "K", "L", "M",
               "N", "O", "P", "Q", "R", "S", "T", "U", "V", "W", "X", "Y", "Z">>
LowerLetters == {LowerAlpha[k] : k \in 1..26}
UpperLetters == {UpperAlpha[k] : k \in 1..26}
\* [a-zA-Z]
IsLetter(c) == c \in LowerLetters \cup UpperLetters

\* str.lower(), one character
Lower(c) ==
    IF c \in UpperLetters THEN LowerAlpha[CHOOSE k \in 1..26 : UpperAlpha[k] = c] ELSE c

LowerSeq(s) == [k \in 1..Len(s) |-> Lower(s[k])]

\* Whether w occurs in s at position p (1-based).
OccursAt(s, w, p) ==
    /\ p >= 1
    /\ p + Len(w) - 1 <= Len(s)
    /\ \A k \in 1..Len(w) : s[p + k - 1] = w[k]

\* a variant that searches from the start of the text
FindFromStart(s, w, pos) ==
    LET hits == {p \in 0..(Len(s) - Len(w)) : OccursAt(s, w, p + 1)}
    IN IF hits = {} THEN -1 ELSE CHOOSE p \in hits : \A q \in hits : p <= q

\* str.find(w, pos) with 0-based positions; -1 when there is none.
Find(s, w, pos) ==
    LET hits == {p \in pos..(Len(s) - Len(w)) : OccursAt(s, w, p + 1)}
    IN IF hits = {} THEN -1 ELSE CHOOSE p \in hits : \A q \in hits : p <= q

\* a variant that takes one punctuation character only
PunctRunEndOne(src, end) ==
    IF end < Len(src) /\ src[end + 1] \in TrailingPunct THEN end + 1 ELSE end

RECURSIVE PunctRunEnd(_, _)
\* Lines 75-77: the end of the run of punctuation starting at 0-based end.
PunctRunEnd(src, end) ==
    IF end < Len(src) /\ src[end + 1] \in TrailingPunct
    THEN PunctRunEnd(src, end + 1) ELSE end

RECURSIVE AttachFrom(_, _, _, _)
AttachFrom(entries, src, k, pos) ==
    IF k > Len(entries) THEN <<>>
    ELSE LET entry == entries[k]
             raw == entry.text
             word == RStripPunct(raw)
             idx == Find(LowerSeq(src), LowerSeq(word), pos)
         IN IF raw = <<>> THEN <<entry>> \o AttachFrom(entries, src, k + 1, pos)
            ELSE IF idx >= 0
            THEN LET end == idx + Len(word)
                     pend == PunctRunEnd(src, end)
                     punct == SubSeq(src, end + 1, pend)
                     text == word \o (IF punct # <<>> THEN <<" ">> \o punct ELSE <<>>)
                 IN <<[entry EXCEPT !.text = text]>>
                        \o AttachFrom(entries, src, k + 1, pend)
            ELSE <<entry>> \o AttachFrom(entries, src, k + 1, pos)

\* _attach_punctuation_from_source
AttachPunctuation(entries, source_text) ==
    IF entries = <<>> \/ source_text = <<>> THEN entries
    ELSE AttachFrom(entries,
                    [k \in 1..Len(source_text) |->
                        IF source_text[k] = "\n" THEN " " ELSE source_text[k]],
                    1, 0)

RECURSIVE JoinLines(_)
\* "\n".join(segments)
JoinLines(ss) ==
    IF ss = <<>> THEN <<>>
    ELSE IF Len(ss) = 1 THEN ss[1]
    ELSE ss[1] \o <<"\n">> \o JoinLines(Tail(ss))

full_text == JoinLines(segment_texts)

\* Lines 223-224: a segment whose text is blank is skipped.
SkipBlankSegment ==
    /\ pc_s = "loop"
    /\ seg_i <= Len(segment_texts)
    /\ Strip(segment_texts[seg_i]) = <<>>
    /\ seg_i' = seg_i + 1
    /\ UNCHANGED <<segment_texts, offset_sec, global_index, all_lrc, temp_mp3s,
                   disk_temps, synth, json_out, json_written, mp3_out,
                   mp3_partial, synth_failed, pc_s>>
    /\ UNCHANGED otherThanStitch

\* Lines 225-249: synthesize one segment, shift its entries, advance the offset.
SynthesizeSegment ==
    /\ pc_s = "loop"
    /\ seg_i <= Len(segment_texts)
    /\ Strip(segment_texts[seg_i]) # <<>>
    /\ \E srt \in SrtContents, seg_duration \in ProbeResults :
        LET local == srt_to_lrc(srt)
            shifted == ShiftEntries(local, offset_sec, global_index)
        IN /\ temp_mp3s' = Append(temp_mp3s, seg_i)
           /\ disk_temps' = disk_temps \cup {seg_i}
           /\ global_index' = global_index + Len(local)
           /\ offset_sec' = NextOffset(offset_sec, seg_duration, shifted)
           /\ all_lrc' = all_lrc \o shifted
           /\ synth' = Append(synth, [seg |-> seg_i, local |-> local,
                                      dur |-> seg_duration, off |-> offset_sec])
    /\ seg_i' = seg_i + 1
    /\ UNCHANGED <<segment_texts, json_out, json_written, mp3_out, mp3_partial,
                   synth_failed, pc_s>>
    /\ UNCHANGED otherThanStitch

\* Lines 270-276: the finally clause unlinks the files listed in temp_mp3s.
Unlinked(disk, listed) == disk \ {listed[k] : k \in 1..Len(listed)}

\* a variant where the error is swallowed and the loop goes on
AfterSynthesisErrorSwallowed == "loop"

\* Where the call goes when synthesis of a segment raises: the exception
\* leaves the try block (line 220), so nothing after the loop runs.
AfterSynthesisError == "failed"

\* Lines 225-237 raising: before the temp file is opened (225-228), while
\* the audio is streamed into it (229-234), or after the file was listed
\* (235-237).  The finally clause then runs.
SynthesisFails ==
    /\ pc_s = "loop"
    /\ seg_i <= Len(segment_texts)
    /\ Strip(segment_texts[seg_i]) # <<>>
    /\ \E stage \in {"before_open", "streaming", "listed"} :
        LET on_disk == IF stage = "before_open" THEN disk_temps
                       ELSE disk_temps \cup {seg_i}
            listed == IF stage = "listed" THEN Append(temp_mp3s, seg_i) ELSE temp_mp3s
        IN /\ temp_mp3s' = listed
           /\ disk_temps' = IF AfterSynthesisError = "failed"
                             THEN Unlinked(on_disk, listed) ELSE on_disk
    /\ synth_failed' = TRUE
    /\ pc_s' = AfterSynthesisError
    /\ seg_i' = IF AfterSynthesisError = "failed" THEN seg_i ELSE seg_i + 1
    /\ UNCHANGED <<segment_texts, offset_sec, global_index, all_lrc, synth,
                   json_out, json_written, mp3_out, mp3_partial>>
    /\ UNCHANGED otherThanStitch

\* _concat_mp3_files (lines 148-186) and the fallback at 257-264: what is at
\* the final mp3 path afterwards.  No file listed: nothing.  One file: it is
\* copied.  Several: ffmpeg succeeds, or fails leaving nothing, or fails
\* leaving the file it had begun to write (the code never removes it).
ConcatOutcomes(listed) ==
    IF listed = <<>> THEN {"none"}
    ELSE IF Len(listed) = 1 THEN {"complete"}
    ELSE {"complete", "none", "partial"}

\* Lines 254-276: concatenate, attach punctuation, write the JSON, clean up.
WriteOutputs ==
    /\ pc_s = "loop"
    /\ seg_i > Len(segment_texts)
    /\ \E outcome \in ConcatOutcomes(temp_mp3s) :
        /\ mp3_out' = (outcome = "complete")
        /\ mp3_partial' = (outcome = "partial")
    /\ json_out' = AttachPunctuation(all_lrc, full_text)
    /\ json_written' = TRUE
    /\ disk_temps' = Unlinked(disk_temps, temp_mp3s)
    /\ pc_s' = "done"
    /\ UNCHANGED <<segment_texts, seg_i, offset_sec, global_index, all_lrc,
                   temp_mp3s, synth, synth_failed>>
    /\ UNCHANGED otherThanStitch

NextStitch == SkipBlankSegment \/ SynthesizeSegment \/ SynthesisFails \/ WriteOutputs


\* A variant that joins up to six following tokens.
max_accumulateSix == 5 + 1

\* ============================================================== step 5
\* max_accumulate: how many following TTS tokens may be joined to one.
max_accumulate == 5

\* [^\w\s] is stripped: what stays is a word character or white space.
IsDigit(c) == c \in {"0", "1", "2", "3", "4", "5", "6", "7", "8", "9"}
IsWordChar(c) == IsLetter(c) \/ IsDigit(c) \/ c = "_"

\* _normalize_word: lower-case, drop every non-word non-space character, strip.
normalize_word(w) ==
    LET keep(c) == IsWordChar(c) \/ IsSpace(c)
    IN Strip(SelectSeq(LowerSeq(w), keep))

RECURSIVE SplitFrom(_, _, _)
\* str.split() / re.findall(r"\S+"): the maximal runs of non-space characters.
SplitFrom(s, k, cur) ==
    IF k > Len(s) THEN (IF cur = <<>> THEN <<>> ELSE <<cur>>)
    ELSE IF IsSpace(s[k])
         THEN (IF cur = <<>> THEN <<>> ELSE <<cur>>) \o SplitFrom(s, k + 1, <<>>)
         ELSE SplitFrom(s, k + 1, Append(cur, s[k]))

Split(s) == SplitFrom(s, 1, <<>>)

\* Characters outside ASCII are written by name: "LCORNER" and "RCORNER" are the
\* corner brackets U+300C and U+300D, "LLENT" and "RLENT" the lenticular
\* brackets U+3010 and U+3011.  Each is one character of the text.
BracketMarkers == {"LCORNER", "RCORNER", "LLENT", "RLENT", "[", "]", "{", "}"}

RECURSIVE RemoveMarkersFrom(_, _)
RemoveMarkersFrom(s, k) ==
    IF k > Len(s) THEN <<>>
    ELSE IF s[k] = "^" /\ k < Len(s) /\ IsLetter(s[k + 1])
         THEN RemoveMarkersFrom(s, k + 1)
    ELSE <<s[k]>> \o RemoveMarkersFrom(s, k + 1)

\* remove_bracket_markers: drop the bracket characters, then each ^ that
\* stands before a letter.
remove_bracket_markers(text) ==
    LET keep(c) == c \notin BracketMarkers
    IN RemoveMarkersFrom(SelectSeq(text, keep), 1)

RECURSIVE NormTokens(_, _)
\* The non-empty normalized tokens of toks, each paired with container index ix.
NormTokens(toks, ix) ==
    IF toks = <<>> THEN <<>>
    ELSE LET norm == normalize_word(Head(toks))
         IN (IF norm # <<>> THEN <<<<ix, norm>>>> ELSE <<>>)
                \o NormTokens(Tail(toks), ix)

RECURSIVE MdWordsFrom(_, _)
MdWordsFrom(segs, si) ==
    IF si > Len(segs) THEN <<>>
    ELSE NormTokens(Split(remove_bracket_markers(segs[si])), si - 1)
            \o MdWordsFrom(segs, si + 1)

\* _get_md_words_flat
get_md_words_flat(segs) == MdWordsFrom(segs, 1)

RECURSIVE LrcFlatFrom(_, _)
\* Lines 104-109
LrcFlatFrom(entries, i) ==
    IF i > Len(entries) THEN <<>>
    ELSE NormTokens(Split(entries[i].text), i - 1) \o LrcFlatFrom(entries, i + 1)

\* The texts a timestamp entry may carry.
AlignEntryTexts ==
    { <<>>,
      <<",">>,
      <<"a">>,
      <<"B", " ", ",">>,
      <<"a", " ", "b">> }

\* The paragraph texts.
AlignSegTexts ==
    { <<"a">>,
      <<"A", " ", "^", "b", ".">>,
      <<"[", "a", "b", "]", ",">>,
      <<"b", " ", "!">> }

\* dict assignment d[k] = v
DictSet(d, k, v) == [x \in DOMAIN d \cup {k} |-> IF x = k THEN v ELSE d[x]]

RECURSIVE DictSetAll(_, _, _)
DictSetAll(d, ks, v) ==
    IF ks = <<>> THEN d ELSE DictSetAll(DictSet(d, Head(ks), v), Tail(ks), v)

RECURSIVE AccTokens(_, _, _)
\* Lines 133-135: the token at 0-based position i joined with the next k tokens.
AccTokens(flat, i, k) ==
    IF k = 0 THEN flat[i + 1][2] ELSE AccTokens(flat, i, k - 1) \o flat[i + k + 1][2]

Min(a, b) == IF a < b THEN a ELSE b

\* Line 132: range(1, min(max_accumulate + 1, len(lrc_flat) - lrc_i))
AccRange(flat, i) == 1..(Min(max_accumulate + 1, Len(flat) - i) - 1)

\* The k at which the for loop of lines 132-143 breaks (the set is empty when it never does).
AccHits(flat, i, md_norm) == {k \in AccRange(flat, i) : AccTokens(flat, i, k) = md_norm}

FirstHit(hits) == CHOOSE k \in hits : \A q \in hits : k <= q

\* A variant that counts the paragraphs from one.
SentIndexOnMatchOneBased(seg_idx, last) == seg_idx + 1

\* A variant that records the carried-forward index on an exact match.
SentIndexOnMatchStale(seg_idx, last) == last

\* Line 125: the index recorded on an exact match.
SentIndexOnMatch(seg_idx, last) == seg_idx

\* A variant that does not advance the TTS cursor when nothing matches.
CursorAfterMissStalled(i) == i

\* Line 146: the TTS cursor after an unmatched token.
CursorAfterMiss(i) == i + 1

InLoop == pc_a = "loop" /\ lrc_i < Len(lrc_flat)

\* Lines 119-122: the paragraph tokens are exhausted.
AlignExhausted ==
    /\ InLoop
    /\ md_idx >= Len(md_flat)
    /\ sent_index_by_entry' = DictSet(sent_index_by_entry, lrc_flat[lrc_i + 1][1],
                                      last_sent_index)
    /\ lrc_i' = lrc_i + 1
    /\ iters' = iters + 1
    /\ UNCHANGED <<lrc_entries, segments, md_flat, lrc_flat, md_idx,
                   last_sent_index, aligned, sentences_json, pc_a>>
    /\ UNCHANGED otherThanAlign

\* Lines 123-128: the current tokens are equal.
AlignExact ==
    /\ InLoop
    /\ md_idx < Len(md_flat)
    /\ lrc_flat[lrc_i + 1][2] = md_flat[md_idx + 1][2]
    /\ LET seg_idx == md_flat[md_idx + 1][1]
       IN /\ sent_index_by_entry' =
                DictSet(sent_index_by_entry, lrc_flat[lrc_i + 1][1],
                        SentIndexOnMatch(seg_idx, last_sent_index))
          /\ last_sent_index' = seg_idx
    /\ md_idx' = md_idx + 1
    /\ lrc_i' = lrc_i + 1
    /\ iters' = iters + 1
    /\ UNCHANGED <<lrc_entries, segments, md_flat, lrc_flat, aligned, sentences_json,
                   pc_a>>
    /\ UNCHANGED otherThanAlign

\* Lines 129-143: the current token and the next k tokens make the paragraph token.
AlignAccumulate ==
    /\ InLoop
    /\ md_idx < Len(md_flat)
    /\ lrc_flat[lrc_i + 1][2] # md_flat[md_idx + 1][2]
    /\ AccHits(lrc_flat, lrc_i, md_flat[md_idx + 1][2]) # {}
    /\ LET seg_idx == md_flat[md_idx + 1][1]
           k == FirstHit(AccHits(lrc_flat, lrc_i, md_flat[md_idx + 1][2]))
       IN /\ sent_index_by_entry' =
                DictSetAll(sent_index_by_entry,
                           [j \in 1..(k + 1) |-> lrc_flat[lrc_i + j][1]], seg_idx)
          /\ last_sent_index' = seg_idx
          /\ lrc_i' = lrc_i + k + 1
    /\ md_idx' = md_idx + 1
    /\ iters' = iters + 1
    /\ UNCHANGED <<lrc_entries, segments, md_flat, lrc_flat, aligned, sentences_json,
                   pc_a>>
    /\ UNCHANGED otherThanAlign

\* Lines 144-146: nothing matches; carry the last index forward.
AlignCarryForward ==
    /\ InLoop
    /\ md_idx < Len(md_flat)
    /\ lrc_flat[lrc_i + 1][2] # md_flat[md_idx + 1][2]
    /\ AccHits(lrc_flat, lrc_i, md_flat[md_idx + 1][2]) = {}
    /\ sent_index_by_entry' = DictSet(sent_index_by_entry, lrc_flat[lrc_i + 1][1],
                                      last_sent_index)
    /\ lrc_i' = CursorAfterMiss(lrc_i)
    /\ iters' = iters + 1
    /\ UNCHANGED <<lrc_entries, segments, md_flat, lrc_flat, md_idx,
                   last_sent_index, aligned, sentences_json, pc_a>>
    /\ UNCHANGED otherThanAlign

\* A variant that gives sentIndex only to the entries the loop recorded.
AlignResultNoDefault(entries, by_entry, last) ==
    [p \in 1..Len(entries) |->
        IF (p - 1) \in DOMAIN by_entry
        THEN [text |-> entries[p].text, index |-> p - 1, sentIndex |-> by_entry[p - 1]]
        ELSE [text |-> entries[p].text, index |-> p - 1]]

\* Lines 153-156: the returned list.
AlignResult(entries, by_entry, last) ==
    [p \in 1..Len(entries) |->
        [text |-> entries[p].text, index |-> p - 1,
         sentIndex |-> IF (p - 1) \in DOMAIN by_entry THEN by_entry[p - 1] ELSE last]]

\* Lines 117, 148-156: the loop ends and the list is returned.
AlignReturn ==
    /\ pc_a = "loop"
    /\ lrc_i >= Len(lrc_flat)
    /\ aligned' = AlignResult(lrc_entries, sent_index_by_entry, last_sent_index)
    /\ pc_a' = "done"
    /\ UNCHANGED <<lrc_entries, segments, md_flat, lrc_flat, md_idx, lrc_i,
                   last_sent_index, sent_index_by_entry, sentences_json, iters>>
    /\ UNCHANGED otherThanAlign

\* Lines 170-173: the entries whose sentIndex is si, as {index, text}, in list order.
WordsOf(with_sent, si) ==
    LET kept == SelectSeq(with_sent, LAMBDA e : e.sentIndex = si)
    IN [q \in 1..Len(kept) |-> [index |-> kept[q].index, text |-> kept[q].text]]

\* A variant that makes a words list only for the paragraphs that have an entry.
build_sentences_jsonSparse(with_sent, num_segments) ==
    LET used == SelectSeq([si \in 1..num_segments |-> si - 1],
                          LAMBDA si : \E p \in 1..Len(with_sent) : with_sent[p].sentIndex = si)
    IN [k \in 1..Len(used) |-> [words |-> WordsOf(with_sent, used[k])]]

\* Lines 167-175: one words list per paragraph position; an entry whose sentIndex is
\* outside 0..num_segments-1 goes to no list (line 172).
build_sentences_json(with_sent, num_segments) ==
    [k \in 1..num_segments |-> [words |-> WordsOf(with_sent, k - 1)]]

\* Lines 166-175: build_sentences_json groups the aligned list.
BuildSentencesJson ==
    /\ pc_a = "done"
    /\ sentences_json' = build_sentences_json(aligned, Len(segments))
    /\ pc_a' = "grouped"
    /\ UNCHANGED <<lrc_entries, segments, md_flat, lrc_flat, md_idx, lrc_i,
                   last_sent_index, sent_index_by_entry, aligned, iters>>
    /\ UNCHANGED otherThanAlign

NextAlign ==
    \/ AlignExhausted
    \/ AlignExact
    \/ AlignAccumulate
    \/ AlignCarryForward
    \/ AlignReturn
    \/ BuildSentencesJson


\* ==================================================== paragraph parser
NARRATION == "narration"
MALE == "male"
FEMALE == "female"
BOY == "boy"
GIRL == "girl"
\* parse_role_tag returns None when the line is no recognized tag.
NoRole == "None"

\* Chinese characters are written by name, one name per character: "ZH" is any
\* CJK ideograph without a role meaning, "ZH_DU" "ZH_BAI" are U+72EC U+767D,
\* "ZH_NAN" U+7537, "ZH_NV" U+5973, "ZH_TONG" U+7AE5.
ChineseChars == {"ZH", "ZH_DU", "ZH_BAI", "ZH_NAN", "ZH_NV", "ZH_TONG"}

\* SHORTHAND_TO_ROLE
RoleKeys(role) ==
    CASE role = NARRATION -> { <<"n">>, <<"n", "a", "r", "r", "a", "t", "i", "o", "n">>,
                               <<"ZH_DU", "ZH_BAI">>, <<"ZH_DU">> }
      [] role = MALE -> { <<"m">>, <<"m", "a", "l", "e">>, <<"ZH_NAN">> }
      [] role = FEMALE -> { <<"f">>, <<"f", "e", "m", "a", "l", "e">>, <<"ZH_NV">> }
      [] role = BOY -> { <<"b">>, <<"b", "o", "y">>, <<"ZH_TONG", "ZH_NAN">> }
      [] role = GIRL -> { <<"g">>, <<"g", "i", "r", "l">>, <<"ZH_TONG", "ZH_NV">> }

ROLE_IDS == {NARRATION, MALE, FEMALE, BOY, GIRL}

\* SHORTHAND_TO_ROLE.get(key)
ShorthandToRole(key) ==
    IF \E r \in ROLE_IDS : key \in RoleKeys(r)
    THEN CHOOSE r \in ROLE_IDS : key \in RoleKeys(r)
    ELSE NoRole

\* A variant that looks the key up without lower-casing it.
parse_role_tag_case_sensitive(line) ==
    LET s == Strip(line)
    IN IF Len(s) >= 3 /\ s[1] = "[" /\ s[Len(s)] = "]"
       THEN LET key == Strip(SubSeq(s, 2, Len(s) - 1))
            IN IF key = <<>> THEN NoRole ELSE ShorthandToRole(key)
       ELSE NoRole

\* parse_role_tag: the whole line is [key], key a role id or shorthand.
parse_role_tag(line) ==
    LET s == Strip(line)
    IN IF Len(s) >= 3 /\ s[1] = "[" /\ s[Len(s)] = "]"
       THEN LET key == LowerSeq(Strip(SubSeq(s, 2, Len(s) - 1)))
            IN IF key = <<>> THEN NoRole ELSE ShorthandToRole(key)
       ELSE NoRole

RECURSIVE SkipSpaces(_, _)
\* The position after the white space that starts at position k.
SkipSpaces(s, k) == IF k <= Len(s) /\ IsSpace(s[k]) THEN SkipSpaces(s, k + 1) ELSE k

\* _ROLE_PREFIX_RE on s: the length of the matched prefix, 0 when there is no match.
RolePrefixLen(s) ==
    LET a == SkipSpaces(s, 1)
        closes == {q \in (a + 1)..Len(s) : s[q] = "]"}
    IN IF a <= Len(s) /\ s[a] = "[" /\ closes # {}
       THEN LET q == CHOOSE x \in closes : \A y \in closes : x <= y
                inner == LowerSeq(SubSeq(s, a + 1, q - 1))
            IN IF ShorthandToRole(inner) # NoRole
               THEN LET b == SkipSpaces(s, q + 1)
                        c == IF b <= Len(s) /\ s[b] = ":" THEN b + 1 ELSE b
                    IN SkipSpaces(s, c) - 1
               ELSE 0
       ELSE 0

\* strip_leading_role_prefix: (text without the prefix, role or None).
strip_leading_role_prefix(text) ==
    LET s == Strip(text)
        n == RolePrefixLen(s)
    IN IF text = <<>> THEN <<text, NoRole>>
       ELSE IF n = 0 THEN <<text, NoRole>>
       ELSE LET a == SkipSpaces(s, 1)
                closes == {q \in (a + 1)..Len(s) : s[q] = "]"}
                q == CHOOSE x \in closes : \A y \in closes : x <= y
            IN <<Strip(SubSeq(s, n + 1, Len(s))),
                 parse_role_tag(<<"[">> \o SubSeq(s, a + 1, q - 1) \o <<"]">>)>>

\* _is_chinese_line: at least 3 Chinese characters.
is_chinese_line(line) ==
    LET s == Strip(line)
    IN s # <<>> /\ Cardinality({k \in 1..Len(s) : s[k] \in ChineseChars}) >= 3

\* The shapes of line a document is made of.
BlankLine == <<" ">>
TagLineM == <<"[", "M", "]">>
UnknownTagLine == <<"[", "x", "]">>
PrefixOnlyLine == <<"[", "ZH_NV", "]", ":">>
PrefixedLine == <<"[", "b", "]", ":", " ", "h", "i">>
PlainLine == <<"o", "k", "ZH">>
ChineseLine == <<"ZH", "ZH", "ZH_NAN">>

ParseLines == {BlankLine, TagLineM, UnknownTagLine, PrefixOnlyLine,
               PrefixedLine, PlainLine, ChineseLine}

IsBlank(line) == Strip(line) = <<>>

RECURSIVE DropLeadingBlank(_)
DropLeadingBlank(ls) ==
    IF ls # <<>> /\ IsBlank(Head(ls)) THEN DropLeadingBlank(Tail(ls)) ELSE ls

RECURSIVE DropTrailingBlank(_)
DropTrailingBlank(ls) ==
    IF ls # <<>> /\ IsBlank(ls[Len(ls)])
    THEN DropTrailingBlank(SubSeq(ls, 1, Len(ls) - 1)) ELSE ls

\* Line 72: text_content.strip().split('\n').  Stripping the text removes the
\* blank lines at both ends; the empty text splits into one empty line.
StripSplit(ls) ==
    LET kept == DropTrailingBlank(DropLeadingBlank(ls))
    IN IF kept = <<>> THEN << <<>> >> ELSE kept

\* A variant that leaves the pending role as it is after a paragraph.
RoleAfterParagraphKept(role) == role

\* Lines 107, 149, 162: the pending role after a paragraph is appended.
RoleAfterParagraph(role) == NARRATION

Para(en, zh, role) == [english |-> en, chinese |-> zh, role |-> role]

CurLine == Strip(lines[p_i + 1])

\* Lines 72-89: split the text and look for a translation line.
ParseStart ==
    /\ pc_p = "start"
    /\ lines' = StripSplit(text_content)
    /\ mode' = IF \E k \in 1..Len(lines') : ~IsBlank(lines'[k]) /\ is_chinese_line(lines'[k])
               THEN "alt" ELSE "notrans"
    /\ pc_p' = "loop"
    /\ UNCHANGED <<text_content, p_i, pending_role, current_english_lines,
                   current_chinese, paragraphs, para_at>>
    /\ UNCHANGED otherThanParse

InNoTrans == pc_p = "loop" /\ mode = "notrans" /\ p_i < Len(lines)

\* Lines 94-96
NoTransBlank ==
    /\ InNoTrans
    /\ CurLine = <<>>
    /\ p_i' = p_i + 1
    /\ UNCHANGED <<text_content, lines, mode, pending_role, current_english_lines,
                   current_chinese, paragraphs, para_at, pc_p>>
    /\ UNCHANGED otherThanParse

\* Lines 97-100
NoTransRoleTag ==
    /\ InNoTrans
    /\ CurLine # <<>>
    /\ parse_role_tag(CurLine) # NoRole
    /\ pending_role' = parse_role_tag(CurLine)
    /\ p_i' = p_i + 1
    /\ UNCHANGED <<text_content, lines, mode, current_english_lines,
                   current_chinese, paragraphs, para_at, pc_p>>
    /\ UNCHANGED otherThanParse

\* Lines 101-107
NoTransParagraph ==
    /\ InNoTrans
    /\ CurLine # <<>>
    /\ parse_role_tag(CurLine) = NoRole
    /\ LET sp == strip_leading_role_prefix(CurLine)
           role == IF sp[2] # NoRole THEN sp[2] ELSE pending_role
       IN paragraphs' = Append(paragraphs,
                               Para(IF sp[1] # <<>> THEN sp[1] ELSE CurLine, <<>>, role))
    /\ para_at' = Append(para_at, p_i + 1)
    /\ pending_role' = RoleAfterParagraph(pending_role)
    /\ p_i' = p_i + 1
    /\ UNCHANGED <<text_content, lines, mode, current_english_lines, current_chinese, pc_p>>
    /\ UNCHANGED otherThanParse

\* Lines 108-109
NoTransReturn ==
    /\ pc_p = "loop" /\ mode = "notrans" /\ p_i >= Len(lines)
    /\ pc_p' = "done"
    /\ UNCHANGED <<text_content, lines, mode, p_i, pending_role, current_english_lines,
                   current_chinese, paragraphs, para_at>>
    /\ UNCHANGED otherThanParse

InAlt == pc_p = "loop" /\ mode = "alt" /\ p_i < Len(lines)

\* Lines 119-122
AltBlank ==
    /\ InAlt
    /\ CurLine = <<>>
    /\ p_i' = p_i + 1
    /\ UNCHANGED <<text_content, lines, mode, pending_role, current_english_lines,
                   current_chinese, paragraphs, para_at, pc_p>>
    /\ UNCHANGED otherThanParse

\* Lines 124-129
AltRoleTag ==
    /\ InAlt
    /\ CurLine # <<>>
    /\ parse_role_tag(CurLine) # NoRole
    /\ pending_role' = parse_role_tag(CurLine)
    /\ p_i' = p_i + 1
    /\ UNCHANGED <<text_content, lines, mode, current_english_lines,
                   current_chinese, paragraphs, para_at, pc_p>>
    /\ UNCHANGED otherThanParse

\* Lines 134-149: a translation line.
AltChineseLine ==
    /\ InAlt
    /\ CurLine # <<>>
    /\ parse_role_tag(CurLine) = NoRole
    /\ is_chinese_line(CurLine)
    /\ IF current_english_lines # <<>>
       THEN /\ paragraphs' = Append(paragraphs,
                                    Para(JoinLines(current_english_lines), CurLine,
                                         pending_role))
            /\ para_at' = Append(para_at, p_i + 1)
            /\ current_english_lines' = <<>>
            /\ current_chinese' = <<>>
            /\ pending_role' = RoleAfterParagraph(pending_role)
       ELSE /\ current_chinese' = CurLine
            /\ UNCHANGED <<paragraphs, para_at, current_english_lines, pending_role>>
    /\ p_i' = p_i + 1
    /\ UNCHANGED <<text_content, lines, mode, pc_p>>
    /\ UNCHANGED otherThanParse

\* Lines 150-170: a source line.
AltEnglishLine ==
    /\ InAlt
    /\ CurLine # <<>>
    /\ parse_role_tag(CurLine) = NoRole
    /\ ~is_chinese_line(CurLine)
    /\ LET flush == current_english_lines # <<>> /\ current_chinese # <<>>
           held == IF flush THEN <<>> ELSE current_english_lines
           role0 == IF flush THEN RoleAfterParagraph(pending_role) ELSE pending_role
           sp == strip_leading_role_prefix(CurLine)
       IN /\ paragraphs' = IF flush
                           THEN Append(paragraphs,
                                       Para(JoinLines(current_english_lines),
                                            current_chinese, pending_role))
                           ELSE paragraphs
          /\ para_at' = IF flush THEN Append(para_at, p_i) ELSE para_at
          /\ current_chinese' = IF flush THEN <<>> ELSE current_chinese
          /\ pending_role' = IF sp[2] # NoRole THEN sp[2] ELSE role0
          /\ current_english_lines' = IF sp[1] # <<>> THEN Append(held, sp[1]) ELSE held
    /\ p_i' = p_i + 1
    /\ UNCHANGED <<text_content, lines, mode, pc_p>>
    /\ UNCHANGED otherThanParse

\* Lines 172-182: the last paragraph, which may have no translation.
AltReturn ==
    /\ pc_p = "loop" /\ mode = "alt" /\ p_i >= Len(lines)
    /\ IF current_english_lines # <<>>
       THEN /\ paragraphs' = Append(paragraphs,
                                    Para(JoinLines(current_english_lines),
                                         current_chinese, pending_role))
            /\ para_at' = Append(para_at, p_i)
       ELSE UNCHANGED <<paragraphs, para_at>>
    /\ pc_p' = "done"
    /\ UNCHANGED <<text_content, lines, mode, p_i, pending_role, current_english_lines,
                   current_chinese>>
    /\ UNCHANGED otherThanParse

NextParse ==
    \/ ParseStart
    \/ NoTransBlank
    \/ NoTransRoleTag
    \/ NoTransParagraph
    \/ NoTransReturn
    \/ AltBlank
    \/ AltRoleTag
    \/ AltChineseLine
    \/ AltEnglishLine
    \/ AltReturn


\* ============================================= vocabulary marker extractor
\* Lines 203-206: the opening and closing character of the four bracket patterns.
BracketOpen(n) ==
    CASE n = 1 -> "LCORNER" [] n = 2 -> "[" [] n = 3 -> "LLENT" [] n = 4 -> "{"
BracketClose(n) ==
    CASE n = 1 -> "RCORNER" [] n = 2 -> "]" [] n = 3 -> "RLENT" [] n = 4 -> "}"

\* len(patterns)
NumPatterns == 6

\* A match is <<start, end, group>>, positions 1-based and inclusive;
\* NoMatch when the pattern does not match at the position.
NoMatch == <<0, 0, <<>>>>

\* open([^close]+)close at position p.
BracketMatchAt(t, p, n) ==
    LET closes == {q \in (p + 1)..Len(t) : t[q] = BracketClose(n)}
    IN IF t[p] = BracketOpen(n) /\ closes # {}
       THEN LET q == CHOOSE x \in closes : \A y \in closes : x <= y
            IN IF q >= p + 2 THEN <<p, q, SubSeq(t, p + 1, q - 1)>> ELSE NoMatch
       ELSE NoMatch

RECURSIVE LettersEnd(_, _)
\* [a-zA-Z]+ from position k: the position after the run (k when there is none).
LettersEnd(t, k) == IF k <= Len(t) /\ IsLetter(t[k]) THEN LettersEnd(t, k + 1) ELSE k

\* [a-zA-Z]+(?:'[a-zA-Z]+)? from position k: the position after it, 0 when
\* there is no word.
WordEnd(t, k) ==
    LET e == LettersEnd(t, k)
    IN IF e = k THEN 0
       ELSE IF e <= Len(t) /\ t[e] = "'" /\ LettersEnd(t, e + 1) > e + 1
            THEN LettersEnd(t, e + 1)
       ELSE e

\* (?=\s*\() at position e.
LooksAtParen(t, e) == LET k == SkipSpaces(t, e) IN k <= Len(t) /\ t[k] = "("

RECURSIVE PhraseEnd(_, _)
\* The lazy repetition (?:\s+word)*? followed by the look-ahead: the position
\* after the shortest phrase the opening parenthesis follows, 0 when none.
PhraseEnd(t, e) ==
    IF LooksAtParen(t, e) THEN e
    ELSE LET k == SkipSpaces(t, e)
         IN IF k > e /\ WordEnd(t, k) # 0 THEN PhraseEnd(t, WordEnd(t, k)) ELSE 0

\* Line 208: ^phrase before an opening parenthesis.
CaretPhraseMatchAt(t, p) ==
    IF t[p] = "^" /\ WordEnd(t, p + 1) # 0 /\ PhraseEnd(t, WordEnd(t, p + 1)) # 0
    THEN LET e == PhraseEnd(t, WordEnd(t, p + 1))
         IN <<p, e - 1, SubSeq(t, p + 1, e - 1)>>
    ELSE NoMatch

WordStop == {" ", "\n", "\t", ".", ",", ";", ":", "!", "?"}

\* Line 209: ^word before white space, punctuation or the end.
CaretWordMatchAt(t, p) ==
    IF t[p] = "^" /\ WordEnd(t, p + 1) # 0
    THEN LET e == WordEnd(t, p + 1)
         IN IF e > Len(t) \/ t[e] \in WordStop
            THEN <<p, e - 1, SubSeq(t, p + 1, e - 1)>>
            ELSE NoMatch
    ELSE NoMatch

MatchAt(t, p, n) ==
    IF n <= 4 THEN BracketMatchAt(t, p, n)
    ELSE IF n = 5 THEN CaretPhraseMatchAt(t, p)
    ELSE CaretWordMatchAt(t, p)

\* pattern.finditer: the leftmost match starting at or after pos.
NextMatch(t, pos, n) ==
    LET starts == {p \in pos..Len(t) : MatchAt(t, p, n) # NoMatch}
    IN IF starts = {} THEN NoMatch
       ELSE MatchAt(t, CHOOSE p \in starts : \A q \in starts : p <= q, n)

\* term in r, for strings
IsSubstring(w, r) == \E p \in 1..(Len(r) - Len(w) + 1) : OccursAt(r, w, p)

\* Line 217: the term is part of a phrase already in the result.
Suppressed(term, res) ==
    \E k \in 1..Len(res) :
        (\E j \in 1..Len(res[k]) : res[k][j] = " ") /\ IsSubstring(term, res[k])

\* The text of the documented example.
ExampleText ==
    <<"T", "h", "e", " ", "^", "i", "n", "h", "a", "b", "i", "t", "a", "n", "t", " ", "l",
      "i", "v", "e", "s", " ", "[", "n", "e", "a", "r", "b", "y", "]", " ", "a", "n", "d",
      " ", "LCORNER", "b", "u", "i", "l", "d", "s", "RCORNER", " ", "a", " ", "^", "m",
      "a", "k", "e", " ", "s", "e", "n", "s", "e", " ", "o", "f", " ", "(", "t", "h", "i",
      "s", ")", " ", "h", "u", "t">>

\* Marked pieces a text is put together from, joined by single spaces.
VocabPieces ==
    { <<"[", "a", "]">>,
      <<"LCORNER", "a", " ", "b", "RCORNER">>,
      <<"LLENT", " ", "b", "RLENT">>,
      <<"{", "b", "}">>,
      <<"^", "a">>,
      <<"^", "a", " ", "b", " ", "(", "c", ")">>,
      <<"x", ".">> }

RECURSIVE JoinSpaces(_)
JoinSpaces(ps) ==
    IF ps = <<>> THEN <<>>
    ELSE IF Len(ps) = 1 THEN ps[1]
    ELSE ps[1] \o <<" ">> \o JoinSpaces(Tail(ps))

VocabTexts ==
    {ExampleText, <<" ">>}
        \cup {JoinSpaces(ps) : ps \in UNION {[1..n -> VocabPieces] : n \in 0..MaxPieces}}

\* Lines 197-198: an empty or blank text gives the empty list.
VocabEmpty ==
    /\ pc_v = "scan"
    /\ Strip(vtext) = <<>>
    /\ pc_v' = "done"
    /\ UNCHANGED <<vtext, pat, vpos, seen, result, result_pos>>
    /\ UNCHANGED otherThanVocab

Scanning == pc_v = "scan" /\ Strip(vtext) # <<>> /\ pat <= NumPatterns

Accepted(term) == term # <<>> /\ term \notin seen /\ ~Suppressed(term, result)

\* Lines 212-220: the next match of the current pattern is a new term.
VocabAdd ==
    /\ Scanning
    /\ NextMatch(vtext, vpos, pat) # NoMatch
    /\ LET m == NextMatch(vtext, vpos, pat)
           term == Strip(m[3])
       IN /\ Accepted(term)
          /\ seen' = seen \cup {term}
          /\ result' = Append(result, term)
          /\ result_pos' = Append(result_pos, m[1])
          /\ vpos' = m[2] + 1
    /\ UNCHANGED <<vtext, pat, pc_v>>
    /\ UNCHANGED otherThanVocab

\* Lines 212-218: the next match is empty, already seen, or part of a phrase.
VocabSkip ==
    /\ Scanning
    /\ NextMatch(vtext, vpos, pat) # NoMatch
    /\ LET m == NextMatch(vtext, vpos, pat)
           term == Strip(m[3])
       IN /\ ~Accepted(term)
          /\ vpos' = m[2] + 1
    /\ UNCHANGED <<vtext, pat, seen, result, result_pos, pc_v>>
    /\ UNCHANGED otherThanVocab

\* Line 211: the current pattern has no further match; go on to the next one.
VocabNextPattern ==
    /\ Scanning
    /\ NextMatch(vtext, vpos, pat) = NoMatch
    /\ pat' = pat + 1
    /\ vpos' = 1
    /\ UNCHANGED <<vtext, seen, result, result_pos, pc_v>>
    /\ UNCHANGED otherThanVocab

\* Line 221
VocabReturn ==
    /\ pc_v = "scan"
    /\ Strip(vtext) # <<>>
    /\ pat > NumPatterns
    /\ pc_v' = "done"
    /\ UNCHANGED <<vtext, pat, vpos, seen, result, result_pos>>
    /\ UNCHANGED otherThanVocab

NextVocab ==
    \/ VocabEmpty
    \/ VocabAdd
    \/ VocabSkip
    \/ VocabNextPattern
    \/ VocabReturn

\* ===================================== _attach_punctuation_from_source, by step
\* Line 62
AttachSrc(source_text) ==
    [k \in 1..Len(source_text) |-> IF source_text[k] = "\n" THEN " " ELSE source_text[k]]

at_src == AttachSrc(at_source_text)

\* The reference text and the tokens of the documented example.
AttachExampleSource ==
    <<"S", "t", "a", "y", " ", "c", "a", "l", "m", ",", " ",
      "p", "l", "e", "a", "s", "e", ".">>
AttachExampleTokens ==
    << <<"s", "t", "a", "y">>, <<"c", "a", "l", "m">>, <<"p", "l", "e", "a", "s", "e">> >>

\* Reference texts the function is called with.
AttachSources ==
    { <<>>,
      AttachExampleSource,
      <<"a", ",", " ", "b", "!", "?">>,
      <<"b", " ", "a", ".">>,
      <<"A", "\n", "b", ",">> }

\* Entry texts: bare tokens, a token that carries punctuation already, a
\* token that is only punctuation, an empty text, a token of no reference.
AttachTokens == { <<"a">>, <<"b">>, <<"B", ",">>, <<",">>, <<>>, <<"c">> }

AttachTokenLists ==
    {AttachExampleTokens} \cup UNION {[1..n -> AttachTokens] : n \in 0..MaxTokens}

\* The entries srt_to_lrc and the stitching loop hand over.
MakeEntries(texts) ==
    [k \in 1..Len(texts) |->
        [index |-> k - 1, start |-> 1000 * (k - 1), end |-> 1000 * k, text |-> texts[k]]]

AtEntry == at_entries[at_k]
AtWord == RStripPunct(AtEntry.text)
AtIdx == Find(LowerSeq(at_src), LowerSeq(AtWord), at_pos)

\* Lines 60-61
AttachEarlyReturn ==
    /\ pc_t = "start"
    /\ at_entries = <<>> \/ at_source_text = <<>>
    /\ at_result' = at_entries
    /\ pc_t' = "done"
    /\ UNCHANGED <<at_entries, at_source_text, at_k, at_pos, at_cursor>>
    /\ UNCHANGED otherThanAttach

\* Lines 62-65
AttachBegin ==
    /\ pc_t = "start"
    /\ at_entries # <<>> /\ at_source_text # <<>>
    /\ at_pos' = 0
    /\ at_result' = <<>>
    /\ at_k' = 1
    /\ pc_t' = "loop"
    /\ UNCHANGED <<at_entries, at_source_text, at_cursor>>
    /\ UNCHANGED otherThanAttach

InAttachLoop == pc_t = "loop" /\ at_k <= Len(at_entries)

\* Lines 67-70: an entry without text
AttachEmptyText ==
    /\ InAttachLoop
    /\ AtEntry.text = <<>>
    /\ at_result' = Append(at_result, AtEntry)
    /\ at_cursor' = Append(at_cursor, at_pos)
    /\ at_k' = at_k + 1
    /\ UNCHANGED <<at_entries, at_source_text, at_pos, pc_t>>
    /\ UNCHANGED otherThanAttach

\* Lines 72-81: the word is found at or after pos
AttachMatch ==
    /\ InAttachLoop
    /\ AtEntry.text # <<>>
    /\ AtIdx >= 0
    /\ LET end == AtIdx + Len(AtWord)
           pend == PunctRunEnd(at_src, end)
           punct == SubSeq(at_src, end + 1, pend)
           text == AtWord \o (IF punct # <<>> THEN <<" ">> \o punct ELSE <<>>)
       IN /\ at_result' = Append(at_result, [AtEntry EXCEPT !.text = text])
          /\ at_pos' = pend
    /\ at_cursor' = Append(at_cursor, at_pos)
    /\ at_k' = at_k + 1
    /\ UNCHANGED <<at_entries, at_source_text, pc_t>>
    /\ UNCHANGED otherThanAttach

\* Lines 82-83: the word is not found
AttachMiss ==
    /\ InAttachLoop
    /\ AtEntry.text # <<>>
    /\ AtIdx < 0
    /\ at_result' = Append(at_result, AtEntry)
    /\ at_cursor' = Append(at_cursor, at_pos)
    /\ at_k' = at_k + 1
    /\ UNCHANGED <<at_entries, at_source_text, at_pos, pc_t>>
    /\ UNCHANGED otherThanAttach

\* Line 84
AttachReturn ==
    /\ pc_t = "loop"
    /\ at_k > Len(at_entries)
    /\ pc_t' = "done"
    /\ UNCHANGED <<at_entries, at_source_text, at_k, at_pos, at_result, at_cursor>>
    /\ UNCHANGED otherThanAttach

NextAttach ==
    \/ AttachEarlyReturn
    \/ AttachBegin
    \/ AttachEmptyText
    \/ AttachMatch
    \/ AttachMiss
    \/ AttachReturn

\* ===================================== markdown paragraph section (step 2)
\* Further characters written by name: "ZH_DUAN" "ZH_LUO" "ZH_JIE" "ZH_GOU"
\* are U+6BB5 U+843D U+7ED3 U+6784 (the section title), "ZH_GONG" U+5171,
\* "FW_LPAREN" "FW_RPAREN" "FW_COLON" the full-width ( ) and colon.

\* "## 段落结构"
SectionTitle == <<"#", "#", " ", "ZH_DUAN", "ZH_LUO", "ZH_JIE", "ZH_GOU">>

\* The least element of a non-empty set of positions.
FirstOf(S) == CHOOSE x \in S : \A y \in S : x <= y
LastOf(S) == CHOOSE x \in S : \A y \in S : x >= y

\* $ without re.MULTILINE: the end, or just before a final line break.
AtDollar(t, q) == q = Len(t) + 1 \/ (q = Len(t) /\ t[q] = "\n")

\* Lines 478-497: the text of the section, after its title line and up to
\* the next second-level heading.
paragraph_section(md) ==
    LET at == FirstOf({p \in 1..Len(md) : OccursAt(md, SectionTitle, p)})
        rest == SubSeq(md, at + Len(SectionTitle), Len(md))
        nls == {q \in 1..Len(rest) : rest[q] = "\n"}
        after == IF nls # {} THEN SubSeq(rest, FirstOf(nls) + 1, Len(rest))
                 ELSE LStrip(rest)
        cuts == {q \in 1..(Len(after) - 3) :
                    /\ OccursAt(after, <<"\n", "#", "#">>, q)
                    /\ IsSpace(after[q + 3])}
    IN IF cuts = {} THEN after ELSE SubSeq(after, 1, FirstOf(cuts) - 1)

RECURSIVE DigitsEnd(_, _)
DigitsEnd(t, k) == IF k <= Len(t) /\ IsDigit(t[k]) THEN DigitsEnd(t, k + 1) ELSE k

\* ###\s+段落\s*\d+ at position p: the position after it, 0 when no match.
HeaderEnd(t, p) ==
    IF OccursAt(t, <<"#", "#", "#">>, p) /\ SkipSpaces(t, p + 3) > p + 3
          /\ OccursAt(t, <<"ZH_DUAN", "ZH_LUO">>, SkipSpaces(t, p + 3))
    THEN LET b == SkipSpaces(t, SkipSpaces(t, p + 3) + 2)
         IN IF DigitsEnd(t, b) > b THEN DigitsEnd(t, b) ELSE 0
    ELSE 0

\* Where group 1 starts when a block pattern matches at p (0: no match).
\* "main" is paragraph_pattern (line 509): the header, \s*\n.  "alt" is
\* alt_pattern2 (line 519): the header, the rest of the line, \n.  "manual"
\* is the split at lines 530-544: right after the header.
BlockStart(t, p, kind) ==
    LET e == HeaderEnd(t, p)
        f == SkipSpaces(t, e)
        inrun == {q \in e..(f - 1) : t[q] = "\n"}
        later == {q \in e..Len(t) : t[q] = "\n"}
    IN IF e = 0 THEN 0
       ELSE IF kind = "main" THEN (IF inrun = {} THEN 0 ELSE LastOf(inrun) + 1)
       ELSE IF kind = "alt" THEN (IF later = {} THEN 0 ELSE FirstOf(later) + 1)
       ELSE e

\* Whether the block ends before position q: at the next header (after a
\* line break for "main", anywhere for the others) or at the end.
BlockStops(t, q, kind) ==
    IF kind = "main"
    THEN (q <= Len(t) /\ t[q] = "\n" /\ HeaderEnd(t, q + 1) # 0) \/ AtDollar(t, q)
    ELSE IF kind = "alt" THEN (q <= Len(t) /\ HeaderEnd(t, q) # 0) \/ AtDollar(t, q)
    ELSE (q <= Len(t) /\ HeaderEnd(t, q) # 0) \/ q = Len(t) + 1

RECURSIVE BlocksFrom(_, _, _)
\* The stripped blocks of the matches found from position pos on.
BlocksFrom(t, pos, kind) ==
    LET starts == {p \in pos..Len(t) : BlockStart(t, p, kind) # 0}
    IN IF starts = {} THEN <<>>
       ELSE LET s == BlockStart(t, FirstOf(starts), kind)
                g == FirstOf({q \in s..(Len(t) + 1) : BlockStops(t, q, kind)})
            IN <<Strip(SubSeq(t, s, g - 1))>> \o BlocksFrom(t, g, kind)

\* Lines 503-544: the blocks the section is cut into.
MdBlocks(section) ==
    IF BlocksFrom(section, 1, "main") # <<>> THEN BlocksFrom(section, 1, "main")
    ELSE IF \E p \in 1..Len(section) : HeaderEnd(section, p) # 0
         THEN IF BlocksFrom(section, 1, "alt") # <<>> THEN BlocksFrom(section, 1, "alt")
              ELSE BlocksFrom(section, 1, "manual")
    ELSE <<>>

\* [-*]\s*\*\*name\*\*[:：] at position p, letter case aside: the position
\* after it, 0 when no match.
LabelEnd(t, p, name) ==
    LET a == SkipSpaces(t, p + 1)
        lit == <<"*", "*">> \o name \o <<"*", "*">>
    IN IF p <= Len(t) /\ t[p] \in {"-", "*"} /\ OccursAt(LowerSeq(t), lit, a)
          /\ a + Len(lit) <= Len(t) /\ t[a + Len(lit)] \in {":", "FW_COLON"}
       THEN a + Len(lit) + 1
       ELSE 0

\* \n[-*]\s*\*\*name at position q (name may be empty: any labelled field).
LabelLineAt(t, q, name) ==
    /\ q + 1 <= Len(t)
    /\ t[q] = "\n"
    /\ t[q + 1] \in {"-", "*"}
    /\ OccursAt(LowerSeq(t), <<"*", "*">> \o name, SkipSpaces(t, q + 2))

EnglishName == <<"e", "n", "g", "l", "i", "s", "h">>
ChineseName == <<"c", "h", "i", "n", "e", "s", "e">>
RoleName == <<"r", "o", "l", "e">>

\* The look-ahead that ends the english value (line 621) ...
EnglishStops(t, q) ==
    \/ LabelLineAt(t, q, ChineseName \o <<"*", "*">>)
    \/ OccursAt(t, <<"\n", "\n">>, q)
    \/ AtDollar(t, q)

\* ... and the chinese value (line 639).
ChineseStops(t, q) ==
    \/ LabelLineAt(t, q, <<>>)
    \/ OccursAt(t, <<"\n", "\n">>, q)
    \/ AtDollar(t, q)

FieldStops(t, q, name) ==
    IF name = EnglishName THEN EnglishStops(t, q) ELSE ChineseStops(t, q)

\* Where the value (.+?) of the first match of a field starts; 0 without a
\* match.  \s* after the colon runs over line breaks too.
ValueStart(t, name) ==
    LET ok == {p \in 1..Len(t) :
                  LabelEnd(t, p, name) # 0 /\ LabelEnd(t, p, name) <= Len(t)}
    IN IF ok = {} THEN 0
       ELSE LET e == LabelEnd(t, FirstOf(ok), name)
                f == SkipSpaces(t, e)
            IN IF f <= Len(t) THEN f ELSE f - 1

\* group(1) of the first match of the field.
FieldValue(t, name) ==
    LET s == ValueStart(t, name)
        g == FirstOf({q \in (s + 1)..(Len(t) + 1) : FieldStops(t, q, name)})
    IN SubSeq(t, s, g - 1)

RECURSIVE SubNlSpaces(_, _, _)
\* re.sub(r'\n\s+', rep, t)
SubNlSpaces(t, k, rep) ==
    IF k > Len(t) THEN <<>>
    ELSE IF t[k] = "\n" /\ SkipSpaces(t, k + 1) > k + 1
         THEN rep \o SubNlSpaces(t, SkipSpaces(t, k + 1), rep)
    ELSE <<t[k]>> \o SubNlSpaces(t, k + 1, rep)

RECURSIVE RemoveParens(_, _)
\* re.sub(r'\([^)]*\)', '', t)
RemoveParens(t, k) ==
    LET closes == {q \in (k + 1)..Len(t) : t[q] = ")"}
    IN IF k > Len(t) THEN <<>>
       ELSE IF t[k] = "(" /\ closes # {} THEN RemoveParens(t, FirstOf(closes) + 1)
       ELSE <<t[k]>> \o RemoveParens(t, k + 1)

\* Lines 625-630
BlockEnglish(block) ==
    IF ValueStart(block, EnglishName) = 0 THEN <<>>
    ELSE LET english_content ==
                 SubNlSpaces(Strip(FieldValue(block, EnglishName)), 1, <<"\n">>)
             stripped == strip_leading_role_prefix(english_content)[1]
         IN IF stripped # <<>> THEN stripped ELSE english_content

\* Lines 643-650, and '' when the field is missing (669-670)
BlockChinese(block) ==
    IF ValueStart(block, ChineseName) = 0 THEN <<>>
    ELSE Strip(RemoveParens(
            SubNlSpaces(Strip(FieldValue(block, ChineseName)), 1, <<" ">>), 1))

RECURSIVE NonSpaceEnd(_, _)
NonSpaceEnd(t, k) == IF k <= Len(t) /\ ~IsSpace(t[k]) THEN NonSpaceEnd(t, k + 1) ELSE k

RECURSIVE RoleValuesFrom(_, _)
\* group(1) of every match of the role pattern (line 656-660), in order.
RoleValuesFrom(t, pos) ==
    LET ok == {p \in pos..Len(t) :
                  /\ LabelEnd(t, p, RoleName) # 0
                  /\ SkipSpaces(t, LabelEnd(t, p, RoleName)) <= Len(t)}
    IN IF ok = {} THEN <<>>
       ELSE LET v == SkipSpaces(t, LabelEnd(t, FirstOf(ok), RoleName))
            IN <<SubSeq(t, v, NonSpaceEnd(t, v) - 1)>>
                   \o RoleValuesFrom(t, NonSpaceEnd(t, v))

\* ROLE_IDS as they are spelled
RoleIdText(role) ==
    CASE role = NARRATION -> <<"n", "a", "r", "r", "a", "t", "i", "o", "n">>
      [] role = MALE -> <<"m", "a", "l", "e">>
      [] role = FEMALE -> <<"f", "e", "m", "a", "l", "e">>
      [] role = BOY -> <<"b", "o", "y">>
      [] role = GIRL -> <<"g", "i", "r", "l">>

\* normalize_role
normalize_role(role) ==
    LET r == LowerSeq(Strip(role))
    IN IF role = <<>> THEN NARRATION
       ELSE IF \E id \in ROLE_IDS : RoleIdText(id) = r
            THEN CHOOSE id \in ROLE_IDS : RoleIdText(id) = r
       ELSE IF ShorthandToRole(r) # NoRole THEN ShorthandToRole(r)
       ELSE NARRATION

\* A variant that takes the first role label.
PickedRoleValueFirst(values) == values[1]

\* role_matches[-1].group(1)
PickedRoleValue(values) == values[Len(values)]

\* Lines 661-664
BlockRole(block) ==
    IF RoleValuesFrom(block, 1) # <<>>
    THEN normalize_role(Strip(PickedRoleValue(RoleValuesFrom(block, 1))))
    ELSE NARRATION

\* "段落{idx}", "（共 {n} 段）": a number as its digits (below ten here)
DigitText(n) == <<(<<"0", "1", "2", "3", "4", "5", "6", "7", "8", "9">>)[n + 1]>>

RECURSIVE BuildBlocks(_, _, _)
\* Lines 44-56: the lines of paragraphs idx.. of the section, each line
\* followed by the line break that "\n".join puts between the lines.
BuildBlocks(expected, llm, idx) ==
    IF idx > Len(expected) THEN <<>>
    ELSE LET para == expected[idx]
             eng0 == Strip(para.english)
             stripped == strip_leading_role_prefix(eng0)[1]
             eng == IF stripped # <<>> THEN stripped ELSE eng0
             ch == IF idx <= Len(llm) /\ llm[idx].chinese # <<>>
                   THEN Strip(llm[idx].chinese) ELSE Strip(para.chinese)
         IN <<"#", "#", "#", " ", "ZH_DUAN", "ZH_LUO">> \o DigitText(idx) \o <<"\n">>
              \o <<"-", " ", "*", "*", "e", "n", "g", "l", "i", "s", "h", "*", "*", ":",
                  " ">> \o eng \o <<"\n">>
              \o <<"-", " ", "*", "*", "c", "h", "i", "n", "e", "s", "e", "*", "*", ":",
                  " ">> \o ch \o <<"\n">>
              \o <<"-", " ", "*", "*", "r", "o", "l", "e", "*", "*", ":", " ">> \o
                  RoleIdText(para.role) \o <<"\n">>
              \o <<"\n">>
              \o BuildBlocks(expected, llm, idx + 1)

\* _build_paragraph_section; llm is <<>> when llm_paragraphs is None or empty.
build_paragraph_section(expected, llm) ==
    RStrip(SectionTitle \o <<"FW_LPAREN", "ZH_GONG", " ">> \o DigitText(Len(expected))
        \o <<" ", "ZH_DUAN", "FW_RPAREN">>
             \o <<"\n", "\n">> \o BuildBlocks(expected, llm, 1))

\* ---- inputs
EnLine == <<"-", " ", "*", "*", "e", "n", "g", "l", "i", "s", "h", "*", "*", ":", " ",
    "H", "i">>
EnLinePrefixed == <<"*", " ", "*", "*", "E", "n", "g", "l", "i", "s", "h", "*", "*",
    "FW_COLON", "[", "M", "]", ":", " ", "y", "o">>
ZhLine == <<"-", " ", "*", "*", "c", "h", "i", "n", "e", "s", "e", "*", "*", ":", " ",
    "ZH", "(", "x", ")">>
ZhEmptyLine == <<"-", " ", "*", "*", "c", "h", "i", "n", "e", "s", "e", "*", "*", ":", " ">>
RoleLineM == <<"-", " ", "*", "*", "r", "o", "l", "e", "*", "*", ":", " ", "M">>
RoleLineKing == <<"-", " ", "*", "*", "r", "o", "l", "e", "*", "*", ":", " ", "k", "i",
    "n", "g">>
MdPlainLine == <<"o", "k">>
MdBlankLine == <<>>

MdLineShapes ==
    {EnLine, EnLinePrefixed, ZhLine, ZhEmptyLine, RoleLineM, RoleLineKing,
     MdPlainLine, MdBlankLine}

\* The lines one block is written with.
BlockLineLists == UNION {[1..n -> MdLineShapes] : n \in 1..MaxBlockLines}

\* A section of one block with the given lines.
OneBlockDoc(ls) ==
    SectionTitle \o <<"\n">> \o <<"#", "#", "#", " ", "ZH_DUAN", "ZH_LUO", "1">> \o
        <<"\n">> \o JoinLines(ls)

\* Documents of other shapes: no section; two blocks and a following
\* section; a header with text after the number; a header without a line
\* break after it; a header with nothing under it.
NoSectionDoc == <<"#", " ", "t", "\n", "H", "i">>
TwoBlockDoc ==
    <<"#", "#", " ", "ZH_DUAN", "ZH_LUO", "ZH_JIE", "ZH_GOU", "FW_LPAREN", "ZH_GONG", " ", "2", " ", "ZH_DUAN", "FW_RPAREN", "\n", "\n", "#", "#", "#", " ", "ZH_DUAN", "ZH_LUO", "1", "\n", "-", " ", "*", "*", "e", "n", "g", "l", "i", "s", "h", "*", "*", ":", " ", "H", "i", "\n", "\n", "#", "#", "#", " ", "ZH_DUAN", "ZH_LUO", " ", "2", "\n", "-", " ", "*", "*", "e", "n", "g", "l", "i", "s", "h", "*", "*", ":", " ", "y", "o", "\n", "-", " ", "*", "*", "c", "h", "i", "n", "e", "s", "e", "*", "*", ":", " ", "ZH", "\n", "\n", "#", "#", " ", "ZH", "ZH", "\n", "-", " ", "*", "*", "e", "n", "g", "l", "i", "s", "h", "*", "*", ":", " ", "n", "o">>
AltHeaderDoc == <<"#", "#", " ", "ZH_DUAN", "ZH_LUO", "ZH_JIE", "ZH_GOU", "\n", "#",
    "#", "#", " ", "ZH_DUAN", "ZH_LUO", "1", " ", "x", "\n", "-", " ", "*", "*", "e", "n",
    "g", "l", "i", "s", "h", "*", "*", ":", " ", "H", "i">>
ManualHeaderDoc == <<"#", "#", " ", "ZH_DUAN", "ZH_LUO", "ZH_JIE", "ZH_GOU", "\n", "#",
    "#", "#", " ", "ZH_DUAN", "ZH_LUO", "1", " ", "-", " ", "*", "*", "e", "n", "g", "l",
    "i", "s", "h", "*", "*", ":", " ", "H", "i">>
EmptyBlockDoc == <<"#", "#", " ", "ZH_DUAN", "ZH_LUO", "ZH_JIE", "ZH_GOU", "\n", "#",
    "#", "#", " ", "ZH_DUAN", "ZH_LUO", "1", "\n">>
OtherDocs == {NoSectionDoc, TwoBlockDoc, AltHeaderDoc, ManualHeaderDoc, EmptyBlockDoc}

\* Paragraph lists handed to _build_paragraph_section.
BuildEnglish == {<<"H", "i">>, <<"a", " ", "b">>}
BuildChinese == {<<>>, <<"ZH">>}
BuildRoles == {NARRATION, MALE, GIRL}
BuildParas == {Para(en, zh, r) : en \in BuildEnglish, zh \in BuildChinese, r \in BuildRoles}
BuildParaLists == UNION {[1..n -> BuildParas] : n \in 1..MaxParas}

\* ---- step 2 writes the section (when there is a list to write) ...
BuildSection ==
    /\ pc_m = "build"
    /\ markdown_content' = build_paragraph_section(expected_paragraphs, <<>>)
    /\ pc_m' = "split"
    /\ UNCHANGED <<expected_paragraphs, block_lines, md_blocks, md_k, md_paragraphs>>
    /\ UNCHANGED otherThanMd

HasSection == \E p \in 1..Len(markdown_content) : OccursAt(markdown_content, SectionTitle, p)

\* ---- ... and parse_paragraphs_from_markdown reads it.  Lines 467-469
MdNoSection ==
    /\ pc_m = "split"
    /\ ~HasSection
    /\ pc_m' = "done"
    /\ UNCHANGED <<markdown_content, expected_paragraphs, block_lines, md_blocks,
                   md_k, md_paragraphs>>
    /\ UNCHANGED otherThanMd

\* Lines 478-544
MdSplit ==
    /\ pc_m = "split"
    /\ HasSection
    /\ md_blocks' = MdBlocks(paragraph_section(markdown_content))
    /\ md_k' = 1
    /\ pc_m' = "blocks"
    /\ UNCHANGED <<markdown_content, expected_paragraphs, block_lines, md_paragraphs>>
    /\ UNCHANGED otherThanMd

InBlocks == pc_m = "blocks" /\ md_k <= Len(md_blocks)

\* Lines 610-612
MdBlockEmpty ==
    /\ InBlocks
    /\ md_blocks[md_k] = <<>>
    /\ md_k' = md_k + 1
    /\ UNCHANGED <<markdown_content, expected_paragraphs, block_lines, md_blocks,
                   md_paragraphs, pc_m>>
    /\ UNCHANGED otherThanMd

\* Lines 616-672: the block has an english value
MdBlockStored ==
    /\ InBlocks
    /\ md_blocks[md_k] # <<>>
    /\ BlockEnglish(md_blocks[md_k]) # <<>>
    /\ md_paragraphs' = Append(md_paragraphs,
            Para(BlockEnglish(md_blocks[md_k]), BlockChinese(md_blocks[md_k]),
                 BlockRole(md_blocks[md_k])))
    /\ md_k' = md_k + 1
    /\ UNCHANGED <<markdown_content, expected_paragraphs, block_lines, md_blocks, pc_m>>
    /\ UNCHANGED otherThanMd

\* Lines 673-674: no english value, the block is left out
MdBlockDropped ==
    /\ InBlocks
    /\ md_blocks[md_k] # <<>>
    /\ BlockEnglish(md_blocks[md_k]) = <<>>
    /\ md_k' = md_k + 1
    /\ UNCHANGED <<markdown_content, expected_paragraphs, block_lines, md_blocks,
                   md_paragraphs, pc_m>>
    /\ UNCHANGED otherThanMd

\* Line 682
MdReturn ==
    /\ pc_m = "blocks"
    /\ md_k > Len(md_blocks)
    /\ pc_m' = "done"
    /\ UNCHANGED <<markdown_content, expected_paragraphs, block_lines, md_blocks,
                   md_k, md_paragraphs>>
    /\ UNCHANGED otherThanMd

NextMd ==
    \/ BuildSection
    \/ MdNoSection
    \/ MdSplit
    \/ MdBlockEmpty
    \/ MdBlockStored
    \/ MdBlockDropped
    \/ MdReturn

\* ============================================================ voice_role
\* ROLE_VOICE_MAP (lines 44-49)
ROLE_VOICE_MAP ==
    [r \in {MALE, FEMALE, BOY, GIRL} |->
        CASE r = MALE   -> "en-US-ChristopherNeural"
          [] r = FEMALE -> "en-US-JennyNeural"
          [] r = BOY    -> "en-US-GuyNeural"
          [] r = GIRL   -> "en-US-AnaNeural"]

\* datetime.now().day
Days == 1..31

\* The role arguments: the five identifiers, the empty string, an unknown word
\* and an identifier in another case.
VoiceRoleArgs == {NARRATION, MALE, FEMALE, BOY, GIRL, "", "king", "Male"}

\* A variant in which the boy's voice follows the day as well.
get_voice_for_roleBoyByDay(role, day) ==
    LET r == IF role = "" \/ role \notin ROLE_IDS \/ role = BOY THEN NARRATION ELSE role
    IN IF r = NARRATION
       THEN (IF day % 2 = 1 THEN ROLE_VOICE_MAP[MALE] ELSE ROLE_VOICE_MAP[FEMALE])
       ELSE ROLE_VOICE_MAP[r]

\* Lines 99-107; day is what datetime.now().day returns during the call.
get_voice_for_role(role, day) ==
    LET r == IF role = "" \/ role \notin ROLE_IDS THEN NARRATION ELSE role
    IN IF r = NARRATION
       THEN (IF day % 2 = 1 THEN ROLE_VOICE_MAP[MALE] ELSE ROLE_VOICE_MAP[FEMALE])
       ELSE ROLE_VOICE_MAP[r]

\* A call of get_voice_for_role; the last two calls are remembered, each with its
\* argument, the parity of its day and the voice returned.
GetVoiceForRole ==
    /\ pc_r = "ready"
    /\ \E role \in VoiceRoleArgs :
        LET call == [role |-> role, odd_day |-> (today % 2 = 1),
                     voice |-> get_voice_for_role(role, today)]
        IN voice_calls' = IF Len(voice_calls) = 2 THEN <<voice_calls[2], call>>
                          ELSE Append(voice_calls, call)
    /\ UNCHANGED <<today, pc_r>>
    /\ UNCHANGED otherThanVoice

\* The calendar moves to the next day; a month ends after 28 to 31 days.
DayPasses ==
    /\ pc_r = "ready"
    /\ \/ today < 31 /\ today' = today + 1
       \/ today >= 28 /\ today' = 1
    /\ UNCHANGED <<voice_calls, pc_r>>
    /\ UNCHANGED otherThanVoice

NextVoice ==
    \/ GetVoiceForRole
    \/ DayPasses

\* ================================================= scratch files of step 3
RECURSIVE CollapseSeparators(_)
\* utils/config.py line 143: re.sub(r"[\s\-\.]+", "_", name)
CollapseSeparators(s) ==
    IF s = <<>> THEN <<>>
    ELSE IF IsSpace(Head(s)) \/ Head(s) \in {"-", "."}
         THEN LET rest == CollapseSeparators(Tail(s))
              IN IF Len(s) > 1 /\ (IsSpace(s[2]) \/ s[2] \in {"-", "."})
                 THEN rest ELSE <<"_">> \o rest
         ELSE <<Head(s)>> \o CollapseSeparators(Tail(s))

\* utils/config.py line 144: re.sub(r"[^\w\u4e00-\u9fff]", "_", normalized)
ReplaceOthers(s) ==
    [k \in 1..Len(s) |-> IF IsWordChar(s[k]) \/ s[k] \in ChineseChars THEN s[k] ELSE "_"]

RECURSIVE StripUnderscores(_)
\* utils/config.py line 145: strip("_")
StripUnderscores(s) ==
    IF s # <<>> /\ Head(s) = "_" THEN StripUnderscores(Tail(s))
    ELSE IF s # <<>> /\ s[Len(s)] = "_" THEN StripUnderscores(SubSeq(s, 1, Len(s) - 1))
    ELSE s

\* utils/config.py lines 141-145
normalize_filename(name) == StripUnderscores(ReplaceOthers(CollapseSeparators(name)))

\* The run dates (input/YYYYMMDD, output/YYYYMMDD).
ScratchDates == {"20260212", "20260213"}

\* Stems of vocabulary files, as sanitize_filename or normalize_filename leave them.
ScratchStems ==
    { <<"a", "b">>,
      <<"a", "_", "b">>,
      <<"a", "-", "b">>,
      <<"a", ".", "b">>,
      <<"ZH", "-", "-", "a">> }

ScratchDocs == [date : ScratchDates, stem : ScratchStems]

\* step 3 line 299: out_name = normalize_filename(md_path.stem)
OutName(doc) == normalize_filename(doc.stem)

\* step 3 lines 212, 228: temp_dir / f"{out_name}_seg_{i}.mp3", temp_dir being
\* tempfile.gettempdir() / "txt2mp4_tts" whatever the run date is.
SegFile(doc, i) == [dir |-> "tmp/txt2mp4_tts", name |-> OutName(doc), seg |-> i]

\* step 3 lines 186, 156: out_path.parent / (out_path.stem + "_concat_list.txt"),
\* out_path being OUTPUT_03_MP3_DIR / f"{out_name}.mp3" of the run date.
ListFile(doc) == [dir |-> doc.date, name |-> OutName(doc), seg |-> -1]

ScratchRuns == {1, 2}

Touch(r, files, op) == {[file |-> f, run |-> r, op |-> op] : f \in files}

\* Lines 221-235: the next paragraph's audio is written to its temp file.
ScratchWriteSegment(r) ==
    /\ sc_pc[r] = "loop"
    /\ sc_seg[r] < sc_n[r]
    /\ sc_touched' = sc_touched \cup Touch(r, {SegFile(sc_doc[r], sc_seg[r])}, "write")
    /\ sc_seg' = [sc_seg EXCEPT ![r] = @ + 1]
    /\ UNCHANGED <<sc_doc, sc_n, sc_pc>>
    /\ UNCHANGED otherThanScratch

\* Lines 255, 150-185: one file is copied; several are joined through a list
\* file that is written, read by ffmpeg and removed.
ScratchConcat(r) ==
    /\ sc_pc[r] = "loop"
    /\ sc_seg[r] = sc_n[r]
    /\ LET segs == {SegFile(sc_doc[r], i) : i \in 0..(sc_n[r] - 1)}
       IN sc_touched' =
            sc_touched \cup Touch(r, segs, "read")
                       \cup (IF sc_n[r] > 1
                             THEN Touch(r, {ListFile(sc_doc[r])}, "write")
                                  \cup Touch(r, {ListFile(sc_doc[r])}, "read")
                                  \cup Touch(r, {ListFile(sc_doc[r])}, "delete")
                             ELSE {})
    /\ sc_pc' = [sc_pc EXCEPT ![r] = "concatenated"]
    /\ UNCHANGED <<sc_doc, sc_n, sc_seg>>
    /\ UNCHANGED otherThanScratch

\* Lines 270-276: the temp files are unlinked.
ScratchCleanup(r) ==
    /\ sc_pc[r] = "concatenated"
    /\ sc_touched' =
         sc_touched \cup Touch(r, {SegFile(sc_doc[r], i) : i \in 0..(sc_n[r] - 1)}, "delete")
    /\ sc_pc' = [sc_pc EXCEPT ![r] = "done"]
    /\ UNCHANGED <<sc_doc, sc_n, sc_seg>>
    /\ UNCHANGED otherThanScratch

NextScratch ==
    \E r \in ScratchRuns :
        \/ ScratchWriteSegment(r)
        \/ ScratchConcat(r)
        \/ ScratchCleanup(r)

\* ============================================ _ensure_paragraph_structure
RECURSIVE ParagraphsOfBlocks(_, _)
\* text_processor lines 599-674 as one pass over the blocks.
ParagraphsOfBlocks(blocks, k) ==
    IF k > Len(blocks) THEN <<>>
    ELSE IF blocks[k] # <<>> /\ BlockEnglish(blocks[k]) # <<>>
         THEN <<Para(BlockEnglish(blocks[k]), BlockChinese(blocks[k]), BlockRole(blocks[k]))>>
                  \o ParagraphsOfBlocks(blocks, k + 1)
         ELSE ParagraphsOfBlocks(blocks, k + 1)

\* "## 段落结构" in markdown_content
HasSectionIn(md) == \E p \in 1..Len(md) : OccursAt(md, SectionTitle, p)

\* parse_paragraphs_from_markdown as a function of the text.
parse_paragraphs_from_markdown(md) ==
    IF HasSectionIn(md) THEN ParagraphsOfBlocks(MdBlocks(paragraph_section(md)), 1)
    ELSE <<>>

\* \w of a str pattern: letters, digits, underscore and the CJK characters.
IsRegexWordChar(c) ==
    IsWordChar(c) \/ c \in ChineseChars
        \/ c \in {"ZH_DUAN", "ZH_LUO", "ZH_JIE", "ZH_GOU", "ZH_GONG"}

\* step 2 line 79: where \n## 段落结构\b matches (the positions of its line break).
SectionSplitPoints(md) ==
    {p \in 1..Len(md) :
        /\ md[p] = "\n"
        /\ OccursAt(md, SectionTitle, p + 1)
        /\ LET q == p + 1 + Len(SectionTitle)
           IN q > Len(md) \/ ~IsRegexWordChar(md[q])}

\* step 2 line 84: re.sub(r"^[^\n]*\n?", "", rest, count=1)
DropFirstLine(rest) ==
    LET nls == {q \in 1..Len(rest) : rest[q] = "\n"}
    IN IF nls = {} THEN <<>> ELSE SubSeq(rest, FirstOf(nls) + 1, Len(rest))

\* step 2 lines 85-89: "\n" and the text from the next \n##\s+ on, or nothing.
AfterSection(rest_after_section) ==
    LET hits == {q \in 1..(Len(rest_after_section) - 3) :
                    /\ OccursAt(rest_after_section, <<"\n", "#", "#">>, q)
                    /\ IsSpace(rest_after_section[q + 3])}
    IN IF hits = {} THEN <<>>
       ELSE <<"\n">> \o SubSeq(rest_after_section, FirstOf(hits), Len(rest_after_section))

\* step 2 lines 71-73: the section is missing and is appended.
AppendSection(md, expected) ==
    RStrip(md) \o <<"\n", "\n">> \o build_paragraph_section(expected, <<>>) \o <<"\n">>

\* step 2 lines 60-91
ensure_paragraph_structure(md, expected) ==
    IF expected = <<>> THEN md
    ELSE IF ~HasSectionIn(md) THEN AppendSection(md, expected)
    ELSE IF SectionSplitPoints(md) = {} THEN md
    ELSE LET at == FirstOf(SectionSplitPoints(md))
             before == SubSeq(md, 1, at - 1)
             rest == SubSeq(md, at + 1 + Len(SectionTitle), Len(md))
             new_section == build_paragraph_section(expected,
                                                    parse_paragraphs_from_markdown(md))
         IN before \o <<"\n">> \o new_section \o AfterSection(DropFirstLine(rest))

\* A title and some text before a document.
UnderTitle(doc) == <<"#", " ", "t", "\n", "\n">> \o doc

\* The documents handed to _ensure_paragraph_structure: without a section;
\* with the section at the very start (one block, two blocks and a following
\* section); with the section after a title (the same, and a block without a
\* chinese line).
EnsureDocs ==
    { NoSectionDoc,
      <<"#", " ", "t", "\n", " ", "\n">>,
      OneBlockDoc(<<EnLine, ZhLine, RoleLineM>>),
      TwoBlockDoc,
      UnderTitle(OneBlockDoc(<<EnLine, ZhLine, RoleLineM>>)),
      UnderTitle(OneBlockDoc(<<EnLine>>)),
      UnderTitle(TwoBlockDoc) }

\* step 2 lines 60-91: the document is fixed.
EnsureParagraphStructure ==
    /\ pc_e = "start"
    /\ ens_first' = ensure_paragraph_structure(ens_markdown, ens_expected)
    /\ pc_e' = "fixed"
    /\ UNCHANGED <<ens_markdown, ens_expected, ens_parsed, ens_second>>
    /\ UNCHANGED otherThanEnsure

\* The fixed document is read by parse_paragraphs_from_markdown (steps 3 and 5).
EnsureReadBack ==
    /\ pc_e = "fixed"
    /\ ens_parsed' = parse_paragraphs_from_markdown(ens_first)
    /\ pc_e' = "read"
    /\ UNCHANGED <<ens_markdown, ens_expected, ens_first, ens_second>>
    /\ UNCHANGED otherThanEnsure

\* step 2 lines 94-109: a later run fixes the stored document with the same list.
EnsureAgain ==
    /\ pc_e = "read"
    /\ ens_second' = ensure_paragraph_structure(ens_first, ens_expected)
    /\ pc_e' = "again"
    /\ UNCHANGED <<ens_markdown, ens_expected, ens_first, ens_parsed>>
    /\ UNCHANGED otherThanEnsure

NextEnsure ==
    \/ EnsureParagraphStructure
    \/ EnsureReadBack
    \/ EnsureAgain

\* @@MODELS@@
\* ======================================================= specifications
\* generate_tts_for_file is entered with the paragraph texts; nothing is synthesized yet.
InitStitch ==
    /\ segment_texts \in UNION {[1..n -> SegTexts] : n \in 1..MaxSegs}
    /\ seg_i = 1
    /\ offset_sec = 0
    /\ global_index = 0
    /\ all_lrc = <<>>
    /\ temp_mp3s = <<>>
    /\ disk_temps = {}
    /\ synth = <<>>
    /\ json_out = <<>>
    /\ json_written = FALSE
    /\ mp3_out = FALSE
    /\ mp3_partial = FALSE
    /\ synth_failed = FALSE
    /\ pc_s = "loop"
    /\ lrc_entries = <<>>
    /\ segments = <<>>
    /\ md_flat = <<>>
    /\ lrc_flat = <<>>
    /\ md_idx = 0
    /\ lrc_i = 0
    /\ last_sent_index = 0
    /\ sent_index_by_entry = <<>>
    /\ aligned = <<>>
    /\ sentences_json = <<>>
    /\ iters = 0
    /\ pc_a = "idle"
    /\ text_content = <<>>
    /\ lines = <<>>
    /\ mode = "none"
    /\ p_i = 0
    /\ pending_role = NARRATION
    /\ current_english_lines = <<>>
    /\ current_chinese = <<>>
    /\ paragraphs = <<>>
    /\ para_at = <<>>
    /\ pc_p = "idle"
    /\ vtext = <<>>
    /\ pat = 1
    /\ vpos = 1
    /\ seen = {}
    /\ result = <<>>
    /\ result_pos = <<>>
    /\ pc_v = "idle"
    /\ at_entries = <<>>
    /\ at_source_text = <<>>
    /\ at_k = 1
    /\ at_pos = 0
    /\ at_result = <<>>
    /\ at_cursor = <<>>
    /\ pc_t = "idle"
    /\ markdown_content = <<>>
    /\ expected_paragraphs = <<>>
    /\ block_lines = <<>>
    /\ md_blocks = <<>>
    /\ md_k = 1
    /\ md_paragraphs = <<>>
    /\ pc_m = "idle"
    /\ today = 1
    /\ voice_calls = <<>>
    /\ pc_r = "idle"
    /\ sc_doc = <<>>
    /\ sc_n = <<>>
    /\ sc_seg = <<>>
    /\ sc_pc = <<>>
    /\ sc_touched = {}
    /\ ens_markdown = <<>>
    /\ ens_expected = <<>>
    /\ ens_first = <<>>
    /\ ens_parsed = <<>>
    /\ ens_second = <<>>
    /\ pc_e = "idle"

SpecStitch == InitStitch /\ [][NextStitch]_vars

\* _align_lrc_to_segments is entered with any entries and any paragraph texts.
InitAlign ==
    /\ \E n \in 0..MaxEntries : \E txt \in [1..n -> AlignEntryTexts] :
         lrc_entries = [k \in 1..n |-> [text |-> txt[k]]]
    /\ segments \in UNION {[1..n -> AlignSegTexts] : n \in 0..MaxParas}
    /\ md_flat = get_md_words_flat(segments)
    /\ lrc_flat = LrcFlatFrom(lrc_entries, 1)
    /\ md_idx = 0
    /\ lrc_i = 0
    /\ last_sent_index = 0
    /\ sent_index_by_entry = <<>>
    /\ aligned = <<>>
    /\ sentences_json = <<>>
    /\ iters = 0
    /\ pc_a = "loop"
    /\ segment_texts = <<>>
    /\ seg_i = 1
    /\ offset_sec = 0
    /\ global_index = 0
    /\ all_lrc = <<>>
    /\ temp_mp3s = <<>>
    /\ disk_temps = {}
    /\ synth = <<>>
    /\ json_out = <<>>
    /\ json_written = FALSE
    /\ mp3_out = FALSE
    /\ mp3_partial = FALSE
    /\ synth_failed = FALSE
    /\ pc_s = "idle"
    /\ text_content = <<>>
    /\ lines = <<>>
    /\ mode = "none"
    /\ p_i = 0
    /\ pending_role = NARRATION
    /\ current_english_lines = <<>>
    /\ current_chinese = <<>>
    /\ paragraphs = <<>>
    /\ para_at = <<>>
    /\ pc_p = "idle"
    /\ vtext = <<>>
    /\ pat = 1
    /\ vpos = 1
    /\ seen = {}
    /\ result = <<>>
    /\ result_pos = <<>>
    /\ pc_v = "idle"
    /\ at_entries = <<>>
    /\ at_source_text = <<>>
    /\ at_k = 1
    /\ at_pos = 0
    /\ at_result = <<>>
    /\ at_cursor = <<>>
    /\ pc_t = "idle"
    /\ markdown_content = <<>>
    /\ expected_paragraphs = <<>>
    /\ block_lines = <<>>
    /\ md_blocks = <<>>
    /\ md_k = 1
    /\ md_paragraphs = <<>>
    /\ pc_m = "idle"
    /\ today = 1
    /\ voice_calls = <<>>
    /\ pc_r = "idle"
    /\ sc_doc = <<>>
    /\ sc_n = <<>>
    /\ sc_seg = <<>>
    /\ sc_pc = <<>>
    /\ sc_touched = {}
    /\ ens_markdown = <<>>
    /\ ens_expected = <<>>
    /\ ens_first = <<>>
    /\ ens_parsed = <<>>
    /\ ens_second = <<>>
    /\ pc_e = "idle"

SpecAlign == InitAlign /\ [][NextAlign]_vars

\* Timestamp texts of one and of three words.
AccEntryTexts ==
    { <<",">>,
      <<"a">>,
      <<"b">>,
      <<"a", " ", "a", " ", "a">> }

\* Paragraph texts whose word is what two, six or seven timestamp words make.
AccSegTexts ==
    { <<"a">>,
      <<"a", "b">>,
      <<"a", "a", "a", "a", "a", "a">>,
      <<"a", "a", "a", "a", "a", "a", "a">> }

\* _align_lrc_to_segments is entered with a word stream that splits the paragraph words.
InitAccumulate ==
    /\ \E n \in 0..MaxEntries : \E txt \in [1..n -> AccEntryTexts] :
         lrc_entries = [k \in 1..n |-> [text |-> txt[k]]]
    /\ segments \in UNION {[1..n -> AccSegTexts] : n \in 1..MaxParas}
    /\ md_flat = get_md_words_flat(segments)
    /\ lrc_flat = LrcFlatFrom(lrc_entries, 1)
    /\ md_idx = 0
    /\ lrc_i = 0
    /\ last_sent_index = 0
    /\ sent_index_by_entry = <<>>
    /\ aligned = <<>>
    /\ sentences_json = <<>>
    /\ iters = 0
    /\ pc_a = "loop"
    /\ segment_texts = <<>>
    /\ seg_i = 1
    /\ offset_sec = 0
    /\ global_index = 0
    /\ all_lrc = <<>>
    /\ temp_mp3s = <<>>
    /\ disk_temps = {}
    /\ synth = <<>>
    /\ json_out = <<>>
    /\ json_written = FALSE
    /\ mp3_out = FALSE
    /\ mp3_partial = FALSE
    /\ synth_failed = FALSE
    /\ pc_s = "idle"
    /\ text_content = <<>>
    /\ lines = <<>>
    /\ mode = "none"
    /\ p_i = 0
    /\ pending_role = NARRATION
    /\ current_english_lines = <<>>
    /\ current_chinese = <<>>
    /\ paragraphs = <<>>
    /\ para_at = <<>>
    /\ pc_p = "idle"
    /\ vtext = <<>>
    /\ pat = 1
    /\ vpos = 1
    /\ seen = {}
    /\ result = <<>>
    /\ result_pos = <<>>
    /\ pc_v = "idle"
    /\ at_entries = <<>>
    /\ at_source_text = <<>>
    /\ at_k = 1
    /\ at_pos = 0
    /\ at_result = <<>>
    /\ at_cursor = <<>>
    /\ pc_t = "idle"
    /\ markdown_content = <<>>
    /\ expected_paragraphs = <<>>
    /\ block_lines = <<>>
    /\ md_blocks = <<>>
    /\ md_k = 1
    /\ md_paragraphs = <<>>
    /\ pc_m = "idle"
    /\ today = 1
    /\ voice_calls = <<>>
    /\ pc_r = "idle"
    /\ sc_doc = <<>>
    /\ sc_n = <<>>
    /\ sc_seg = <<>>
    /\ sc_pc = <<>>
    /\ sc_touched = {}
    /\ ens_markdown = <<>>
    /\ ens_expected = <<>>
    /\ ens_first = <<>>
    /\ ens_parsed = <<>>
    /\ ens_second = <<>>
    /\ pc_e = "idle"

SpecAccumulate == InitAccumulate /\ [][NextAlign]_vars

\* parse_paragraphs_from_txt is entered with any document of the line shapes above.
InitParse ==
    /\ text_content \in UNION {[1..n -> ParseLines] : n \in 1..MaxLines}
    /\ lines = <<>>
    /\ mode = "none"
    /\ p_i = 0
    /\ pending_role = NARRATION
    /\ current_english_lines = <<>>
    /\ current_chinese = <<>>
    /\ paragraphs = <<>>
    /\ para_at = <<>>
    /\ pc_p = "start"
    /\ segment_texts = <<>>
    /\ seg_i = 1
    /\ offset_sec = 0
    /\ global_index = 0
    /\ all_lrc = <<>>
    /\ temp_mp3s = <<>>
    /\ disk_temps = {}
    /\ synth = <<>>
    /\ json_out = <<>>
    /\ json_written = FALSE
    /\ mp3_out = FALSE
    /\ mp3_partial = FALSE
    /\ synth_failed = FALSE
    /\ pc_s = "idle"
    /\ lrc_entries = <<>>
    /\ segments = <<>>
    /\ md_flat = <<>>
    /\ lrc_flat = <<>>
    /\ md_idx = 0
    /\ lrc_i = 0
    /\ last_sent_index = 0
    /\ sent_index_by_entry = <<>>
    /\ aligned = <<>>
    /\ sentences_json = <<>>
    /\ iters = 0
    /\ pc_a = "idle"
    /\ vtext = <<>>
    /\ pat = 1
    /\ vpos = 1
    /\ seen = {}
    /\ result = <<>>
    /\ result_pos = <<>>
    /\ pc_v = "idle"
    /\ at_entries = <<>>
    /\ at_source_text = <<>>
    /\ at_k = 1
    /\ at_pos = 0
    /\ at_result = <<>>
    /\ at_cursor = <<>>
    /\ pc_t = "idle"
    /\ markdown_content = <<>>
    /\ expected_paragraphs = <<>>
    /\ block_lines = <<>>
    /\ md_blocks = <<>>
    /\ md_k = 1
    /\ md_paragraphs = <<>>
    /\ pc_m = "idle"
    /\ today = 1
    /\ voice_calls = <<>>
    /\ pc_r = "idle"
    /\ sc_doc = <<>>
    /\ sc_n = <<>>
    /\ sc_seg = <<>>
    /\ sc_pc = <<>>
    /\ sc_touched = {}
    /\ ens_markdown = <<>>
    /\ ens_expected = <<>>
    /\ ens_first = <<>>
    /\ ens_parsed = <<>>
    /\ ens_second = <<>>
    /\ pc_e = "idle"

SpecParse == InitParse /\ [][NextParse]_vars

\* Lines of a document that carries role markers: two tag lines, a line with a
\* role prefix, and two lines with marked words.
RoleTagLines == { <<"[", "M", "]">>, <<"[", "ZH_NAN", "]">> }

ContentLines ==
    { <<"[", "F", "]", ":", " ", "x", " ", "[", "a", "]">>,
      <<"x", " ", "[", "a", "]", ".">>,
      <<"^", "a", " ", "x">> }

\* step 2 lines 142-152: the documents that are neither blank nor without a
\* paragraph, so that line 159 is reached.
RoleMarkedTexts ==
    {JoinLines(ls) : ls \in {l \in UNION {[1..n -> RoleTagLines \cup ContentLines] :
                                              n \in 1..MaxLines} :
                                 \E k \in DOMAIN l : l[k] \in ContentLines}}

\* extract_bracketed_vocabulary is entered with any of the texts above.
InitVocab ==
    /\ vtext \in VocabTexts \cup RoleMarkedTexts
    /\ pat = 1
    /\ vpos = 1
    /\ seen = {}
    /\ result = <<>>
    /\ result_pos = <<>>
    /\ pc_v = "scan"
    /\ segment_texts = <<>>
    /\ seg_i = 1
    /\ offset_sec = 0
    /\ global_index = 0
    /\ all_lrc = <<>>
    /\ temp_mp3s = <<>>
    /\ disk_temps = {}
    /\ synth = <<>>
    /\ json_out = <<>>
    /\ json_written = FALSE
    /\ mp3_out = FALSE
    /\ mp3_partial = FALSE
    /\ synth_failed = FALSE
    /\ pc_s = "idle"
    /\ lrc_entries = <<>>
    /\ segments = <<>>
    /\ md_flat = <<>>
    /\ lrc_flat = <<>>
    /\ md_idx = 0
    /\ lrc_i = 0
    /\ last_sent_index = 0
    /\ sent_index_by_entry = <<>>
    /\ aligned = <<>>
    /\ sentences_json = <<>>
    /\ iters = 0
    /\ pc_a = "idle"
    /\ text_content = <<>>
    /\ lines = <<>>
    /\ mode = "none"
    /\ p_i = 0
    /\ pending_role = NARRATION
    /\ current_english_lines = <<>>
    /\ current_chinese = <<>>
    /\ paragraphs = <<>>
    /\ para_at = <<>>
    /\ pc_p = "idle"
    /\ at_entries = <<>>
    /\ at_source_text = <<>>
    /\ at_k = 1
    /\ at_pos = 0
    /\ at_result = <<>>
    /\ at_cursor = <<>>
    /\ pc_t = "idle"
    /\ markdown_content = <<>>
    /\ expected_paragraphs = <<>>
    /\ block_lines = <<>>
    /\ md_blocks = <<>>
    /\ md_k = 1
    /\ md_paragraphs = <<>>
    /\ pc_m = "idle"
    /\ today = 1
    /\ voice_calls = <<>>
    /\ pc_r = "idle"
    /\ sc_doc = <<>>
    /\ sc_n = <<>>
    /\ sc_seg = <<>>
    /\ sc_pc = <<>>
    /\ sc_touched = {}
    /\ ens_markdown = <<>>
    /\ ens_expected = <<>>
    /\ ens_first = <<>>
    /\ ens_parsed = <<>>
    /\ ens_second = <<>>
    /\ pc_e = "idle"

SpecVocab == InitVocab /\ [][NextVocab]_vars

\* _attach_punctuation_from_source is entered with any entries and reference.
InitAttach ==
    /\ at_entries \in {MakeEntries(ts) : ts \in AttachTokenLists}
    /\ at_source_text \in AttachSources
    /\ at_k = 1
    /\ at_pos = 0
    /\ at_result = <<>>
    /\ at_cursor = <<>>
    /\ pc_t = "start"
    /\ segment_texts = <<>>
    /\ seg_i = 1
    /\ offset_sec = 0
    /\ global_index = 0
    /\ all_lrc = <<>>
    /\ temp_mp3s = <<>>
    /\ disk_temps = {}
    /\ synth = <<>>
    /\ json_out = <<>>
    /\ json_written = FALSE
    /\ mp3_out = FALSE
    /\ mp3_partial = FALSE
    /\ synth_failed = FALSE
    /\ pc_s = "idle"
    /\ lrc_entries = <<>>
    /\ segments = <<>>
    /\ md_flat = <<>>
    /\ lrc_flat = <<>>
    /\ md_idx = 0
    /\ lrc_i = 0
    /\ last_sent_index = 0
    /\ sent_index_by_entry = <<>>
    /\ aligned = <<>>
    /\ sentences_json = <<>>
    /\ iters = 0
    /\ pc_a = "idle"
    /\ text_content = <<>>
    /\ lines = <<>>
    /\ mode = "none"
    /\ p_i = 0
    /\ pending_role = NARRATION
    /\ current_english_lines = <<>>
    /\ current_chinese = <<>>
    /\ paragraphs = <<>>
    /\ para_at = <<>>
    /\ pc_p = "idle"
    /\ vtext = <<>>
    /\ pat = 1
    /\ vpos = 1
    /\ seen = {}
    /\ result = <<>>
    /\ result_pos = <<>>
    /\ pc_v = "idle"
    /\ markdown_content = <<>>
    /\ expected_paragraphs = <<>>
    /\ block_lines = <<>>
    /\ md_blocks = <<>>
    /\ md_k = 1
    /\ md_paragraphs = <<>>
    /\ pc_m = "idle"
    /\ today = 1
    /\ voice_calls = <<>>
    /\ pc_r = "idle"
    /\ sc_doc = <<>>
    /\ sc_n = <<>>
    /\ sc_seg = <<>>
    /\ sc_pc = <<>>
    /\ sc_touched = {}
    /\ ens_markdown = <<>>
    /\ ens_expected = <<>>
    /\ ens_first = <<>>
    /\ ens_parsed = <<>>
    /\ ens_second = <<>>
    /\ pc_e = "idle"

SpecAttach == InitAttach /\ [][NextAttach]_vars

\* The markdown reader is entered with a given document, or with the section
\* step 2 writes from a paragraph list.
InitMd ==
    /\ \/ /\ block_lines \in BlockLineLists
          /\ markdown_content = OneBlockDoc(block_lines)
          /\ expected_paragraphs = <<>>
          /\ pc_m = "split"
       \/ /\ block_lines = <<>>
          /\ markdown_content \in OtherDocs
          /\ expected_paragraphs = <<>>
          /\ pc_m = "split"
       \/ /\ block_lines = <<>>
          /\ markdown_content = <<>>
          /\ expected_paragraphs \in BuildParaLists
          /\ pc_m = "build"
    /\ md_blocks = <<>>
    /\ md_k = 1
    /\ md_paragraphs = <<>>
    /\ segment_texts = <<>>
    /\ seg_i = 1
    /\ offset_sec = 0
    /\ global_index = 0
    /\ all_lrc = <<>>
    /\ temp_mp3s = <<>>
    /\ disk_temps = {}
    /\ synth = <<>>
    /\ json_out = <<>>
    /\ json_written = FALSE
    /\ mp3_out = FALSE
    /\ mp3_partial = FALSE
    /\ synth_failed = FALSE
    /\ pc_s = "idle"
    /\ lrc_entries = <<>>
    /\ segments = <<>>
    /\ md_flat = <<>>
    /\ lrc_flat = <<>>
    /\ md_idx = 0
    /\ lrc_i = 0
    /\ last_sent_index = 0
    /\ sent_index_by_entry = <<>>
    /\ aligned = <<>>
    /\ sentences_json = <<>>
    /\ iters = 0
    /\ pc_a = "idle"
    /\ text_content = <<>>
    /\ lines = <<>>
    /\ mode = "none"
    /\ p_i = 0
    /\ pending_role = NARRATION
    /\ current_english_lines = <<>>
    /\ current_chinese = <<>>
    /\ paragraphs = <<>>
    /\ para_at = <<>>
    /\ pc_p = "idle"
    /\ vtext = <<>>
    /\ pat = 1
    /\ vpos = 1
    /\ seen = {}
    /\ result = <<>>
    /\ result_pos = <<>>
    /\ pc_v = "idle"
    /\ at_entries = <<>>
    /\ at_source_text = <<>>
    /\ at_k = 1
    /\ at_pos = 0
    /\ at_result = <<>>
    /\ at_cursor = <<>>
    /\ pc_t = "idle"
    /\ today = 1
    /\ voice_calls = <<>>
    /\ pc_r = "idle"
    /\ sc_doc = <<>>
    /\ sc_n = <<>>
    /\ sc_seg = <<>>
    /\ sc_pc = <<>>
    /\ sc_touched = {}
    /\ ens_markdown = <<>>
    /\ ens_expected = <<>>
    /\ ens_first = <<>>
    /\ ens_parsed = <<>>
    /\ ens_second = <<>>
    /\ pc_e = "idle"

SpecMd == InitMd /\ [][NextMd]_vars

\* get_voice_for_role is called on any day of a month.
InitVoice ==
    /\ today \in Days
    /\ voice_calls = <<>>
    /\ pc_r = "ready"
    /\ segment_texts = <<>>
    /\ seg_i = 1
    /\ offset_sec = 0
    /\ global_index = 0
    /\ all_lrc = <<>>
    /\ temp_mp3s = <<>>
    /\ disk_temps = {}
    /\ synth = <<>>
    /\ json_out = <<>>
    /\ json_written = FALSE
    /\ mp3_out = FALSE
    /\ mp3_partial = FALSE
    /\ synth_failed = FALSE
    /\ pc_s = "idle"
    /\ lrc_entries = <<>>
    /\ segments = <<>>
    /\ md_flat = <<>>
    /\ lrc_flat = <<>>
    /\ md_idx = 0
    /\ lrc_i = 0
    /\ last_sent_index = 0
    /\ sent_index_by_entry = <<>>
    /\ aligned = <<>>
    /\ sentences_json = <<>>
    /\ iters = 0
    /\ pc_a = "idle"
    /\ text_content = <<>>
    /\ lines = <<>>
    /\ mode = "none"
    /\ p_i = 0
    /\ pending_role = NARRATION
    /\ current_english_lines = <<>>
    /\ current_chinese = <<>>
    /\ paragraphs = <<>>
    /\ para_at = <<>>
    /\ pc_p = "idle"
    /\ vtext = <<>>
    /\ pat = 1
    /\ vpos = 1
    /\ seen = {}
    /\ result = <<>>
    /\ result_pos = <<>>
    /\ pc_v = "idle"
    /\ at_entries = <<>>
    /\ at_source_text = <<>>
    /\ at_k = 1
    /\ at_pos = 0
    /\ at_result = <<>>
    /\ at_cursor = <<>>
    /\ pc_t = "idle"
    /\ markdown_content = <<>>
    /\ expected_paragraphs = <<>>
    /\ block_lines = <<>>
    /\ md_blocks = <<>>
    /\ md_k = 1
    /\ md_paragraphs = <<>>
    /\ pc_m = "idle"
    /\ sc_doc = <<>>
    /\ sc_n = <<>>
    /\ sc_seg = <<>>
    /\ sc_pc = <<>>
    /\ sc_touched = {}
    /\ ens_markdown = <<>>
    /\ ens_expected = <<>>
    /\ ens_first = <<>>
    /\ ens_parsed = <<>>
    /\ ens_second = <<>>
    /\ pc_e = "idle"

SpecVoice == InitVoice /\ [][NextVoice]_vars

\* Two runs of generate_tts_for_file start on two distinct documents.
InitScratch ==
    /\ sc_doc \in {d \in [ScratchRuns -> ScratchDocs] : d[1] # d[2]}
    /\ sc_n \in [ScratchRuns -> 1..MaxScratchSegs]
    /\ sc_seg = [r \in ScratchRuns |-> 0]
    /\ sc_pc = [r \in ScratchRuns |-> "loop"]
    /\ sc_touched = {}
    /\ segment_texts = <<>>
    /\ seg_i = 1
    /\ offset_sec = 0
    /\ global_index = 0
    /\ all_lrc = <<>>
    /\ temp_mp3s = <<>>
    /\ disk_temps = {}
    /\ synth = <<>>
    /\ json_out = <<>>
    /\ json_written = FALSE
    /\ mp3_out = FALSE
    /\ mp3_partial = FALSE
    /\ synth_failed = FALSE
    /\ pc_s = "idle"
    /\ lrc_entries = <<>>
    /\ segments = <<>>
    /\ md_flat = <<>>
    /\ lrc_flat = <<>>
    /\ md_idx = 0
    /\ lrc_i = 0
    /\ last_sent_index = 0
    /\ sent_index_by_entry = <<>>
    /\ aligned = <<>>
    /\ sentences_json = <<>>
    /\ iters = 0
    /\ pc_a = "idle"
    /\ text_content = <<>>
    /\ lines = <<>>
    /\ mode = "none"
    /\ p_i = 0
    /\ pending_role = NARRATION
    /\ current_english_lines = <<>>
    /\ current_chinese = <<>>
    /\ paragraphs = <<>>
    /\ para_at = <<>>
    /\ pc_p = "idle"
    /\ vtext = <<>>
    /\ pat = 1
    /\ vpos = 1
    /\ seen = {}
    /\ result = <<>>
    /\ result_pos = <<>>
    /\ pc_v = "idle"
    /\ at_entries = <<>>
    /\ at_source_text = <<>>
    /\ at_k = 1
    /\ at_pos = 0
    /\ at_result = <<>>
    /\ at_cursor = <<>>
    /\ pc_t = "idle"
    /\ markdown_content = <<>>
    /\ expected_paragraphs = <<>>
    /\ block_lines = <<>>
    /\ md_blocks = <<>>
    /\ md_k = 1
    /\ md_paragraphs = <<>>
    /\ pc_m = "idle"
    /\ today = 1
    /\ voice_calls = <<>>
    /\ pc_r = "idle"
    /\ ens_markdown = <<>>
    /\ ens_expected = <<>>
    /\ ens_first = <<>>
    /\ ens_parsed = <<>>
    /\ ens_second = <<>>
    /\ pc_e = "idle"

SpecScratch == InitScratch /\ [][NextScratch]_vars

\* _ensure_paragraph_structure is called with a document and a paragraph list.
InitEnsure ==
    /\ ens_markdown \in EnsureDocs
    /\ ens_expected \in {<<>>} \cup BuildParaLists
    /\ ens_first = <<>>
    /\ ens_parsed = <<>>
    /\ ens_second = <<>>
    /\ pc_e = "start"
    /\ segment_texts = <<>>
    /\ seg_i = 1
    /\ offset_sec = 0
    /\ global_index = 0
    /\ all_lrc = <<>>
    /\ temp_mp3s = <<>>
    /\ disk_temps = {}
    /\ synth = <<>>
    /\ json_out = <<>>
    /\ json_written = FALSE
    /\ mp3_out = FALSE
    /\ mp3_partial = FALSE
    /\ synth_failed = FALSE
    /\ pc_s = "idle"
    /\ lrc_entries = <<>>
    /\ segments = <<>>
    /\ md_flat = <<>>
    /\ lrc_flat = <<>>
    /\ md_idx = 0
    /\ lrc_i = 0
    /\ last_sent_index = 0
    /\ sent_index_by_entry = <<>>
    /\ aligned = <<>>
    /\ sentences_json = <<>>
    /\ iters = 0
    /\ pc_a = "idle"
    /\ text_content = <<>>
    /\ lines = <<>>
    /\ mode = "none"
    /\ p_i = 0
    /\ pending_role = NARRATION
    /\ current_english_lines = <<>>
    /\ current_chinese = <<>>
    /\ paragraphs = <<>>
    /\ para_at = <<>>
    /\ pc_p = "idle"
    /\ vtext = <<>>
    /\ pat = 1
    /\ vpos = 1
    /\ seen = {}
    /\ result = <<>>
    /\ result_pos = <<>>
    /\ pc_v = "idle"
    /\ at_entries = <<>>
    /\ at_source_text = <<>>
    /\ at_k = 1
    /\ at_pos = 0
    /\ at_result = <<>>
    /\ at_cursor = <<>>
    /\ pc_t = "idle"
    /\ markdown_content = <<>>
    /\ expected_paragraphs = <<>>
    /\ block_lines = <<>>
    /\ md_blocks = <<>>
    /\ md_k = 1
    /\ md_paragraphs = <<>>
    /\ pc_m = "idle"
    /\ today = 1
    /\ voice_calls = <<>>
    /\ pc_r = "idle"
    /\ sc_doc = <<>>
    /\ sc_n = <<>>
    /\ sc_seg = <<>>
    /\ sc_pc = <<>>
    /\ sc_touched = {}

SpecEnsure == InitEnsure /\ [][NextEnsure]_vars

\* ------------------------------------------------- claims on the stitcher
AllMeasured == \A j \in 1..Len(synth) : synth[j].dur # NoDuration

\* Position in the stitched stream of entry k of the j-th synthesized segment.
PosOf(j, k) == SumLens(synth, j - 1) + k

\* C1: when every synthesized segment's duration is measured (d1..dN), every
\* entry of the i-th synthesized segment is written with start (and end) equal
\* to d1 + ... + d(i-1) plus its segment-local start (end).
C1_MeasuredOffsets ==
    (pc_s = "done" /\ AllMeasured) =>
        /\ Len(json_out) = SumLens(synth, Len(synth))
        /\ \A j \in 1..Len(synth) : \A k \in 1..Len(synth[j].local) :
            /\ json_out[PosOf(j, k)].start
                 = SumDurs(synth, j - 1) + synth[j].local[k].start
            /\ json_out[PosOf(j, k)].end
                 = SumDurs(synth, j - 1) + synth[j].local[k].end

\* Three measured segments with two different durations, the third with entries.
C1_Witness ==
    /\ pc_s = "done"
    /\ AllMeasured
    /\ Len(synth) = 3
    /\ synth[1].dur # synth[2].dur
    /\ Len(synth[3].local) >= 1
    /\ json_written

\* C2: the written list has index values exactly 0..N-1, without gap or
\* duplicate, following segment order and, within a segment, entry order;
\* N is the total number of entries of the synthesized segments.
C2_DenseIndex ==
    pc_s = "done" =>
        /\ Len(json_out) = SumLens(synth, Len(synth))
        /\ \A p \in 1..Len(json_out) : json_out[p].index = p - 1
        /\ \A j \in 1..Len(synth) : \A k \in 1..Len(synth[j].local) :
            /\ json_out[PosOf(j, k)].start = synth[j].off + synth[j].local[k].start
            /\ json_out[PosOf(j, k)].end = synth[j].off + synth[j].local[k].end

\* A run with a skipped blank segment, a segment without entries and a segment
\* whose local index does not start at 0.
C2_Witness ==
    /\ pc_s = "done"
    /\ json_written
    /\ Len(segment_texts) > Len(synth)
    /\ Len(synth) = 2
    /\ synth[1].local = <<>>
    /\ Len(synth[2].local) = 1
    /\ synth[2].local[1].index = 1
    /\ json_out[1].index = 0

\* C3 (as claimed): across every boundary between consecutive synthesized
\* segments, no entry of the later segment starts before the last entry of
\* the earlier segment ends, whatever the probe reports.
C3_NoOverlapAcrossSegments ==
    pc_s = "done" =>
        \A j \in 1..(Len(synth) - 1) :
            (synth[j].local # <<>>) =>
                \A k \in 1..Len(synth[j + 1].local) :
                    json_out[PosOf(j + 1, k)].start
                        >= json_out[PosOf(j, Len(synth[j].local))].end

\* -------------------------------------------------- claims on the aligner
\* C4: every entry returned by _align_lrc_to_segments carries a sentIndex
\* (one returned entry per input entry), whatever the texts are.
C4_EveryEntryHasSentIndex ==
    pc_a = "done" =>
        /\ Len(aligned) = Len(lrc_entries)
        /\ \A p \in 1..Len(aligned) : "sentIndex" \in DOMAIN aligned[p]

\* An entry with empty text, an entry of punctuation only, and tokens reached
\* after the single paragraph token was consumed.
C4_Witness ==
    /\ pc_a = "done"
    /\ \E p \in 1..Len(lrc_entries) : lrc_entries[p].text = <<>>
    /\ \E p \in 1..Len(lrc_entries) : lrc_entries[p].text = <<",">>
    /\ Len(md_flat) = 1
    /\ md_idx = 1
    /\ Len(lrc_flat) >= 2
    /\ lrc_flat[1][2] = md_flat[1][2]
    /\ Len(aligned) = 3

\* C5: every iteration of the matching loop strictly increases lrc_i and never
\* decreases md_idx, the number of iterations never exceeds len(lrc_flat),
\* and the loop is never stuck before it returns.
C5_LoopProgress ==
    /\ [][(pc_a = "loop" /\ pc_a' = "loop") =>
            (lrc_i' > lrc_i /\ md_idx' >= md_idx /\ iters' <= Len(lrc_flat))]_vars
    /\ [](pc_a = "loop" => ENABLED NextAlign)

\* The loop ran to its end over three tokens without a single match.
C5_Witness ==
    /\ pc_a = "done"
    /\ Len(md_flat) > 0
    /\ md_idx = 0
    /\ Len(lrc_flat) >= 3
    /\ iters = Len(lrc_flat)

\* The normalized tokens of both sides, without their container indices.
TokensOf(flat) == [p \in 1..Len(flat) |-> flat[p][2]]

PerfectTokens == TokensOf(lrc_flat) = TokensOf(md_flat)

\* The paragraphs that hold the tokens of entry e (0-based), position by position.
ParasOfEntry(e) == {md_flat[p][1] : p \in {q \in 1..Len(lrc_flat) : lrc_flat[q][1] = e}}

\* C6: when the normalized TTS tokens equal the normalized paragraph tokens one
\* for one and in order, every entry whose tokens lie in one paragraph gets
\* that paragraph's index.
C6_PerfectInputExact ==
    (pc_a = "done" /\ PerfectTokens) =>
        \A e \in 0..(Len(lrc_entries) - 1) : \A si \in ParasOfEntry(e) :
            ParasOfEntry(e) = {si} => aligned[e + 1].sentIndex = si

\* A perfectly tokenized input over two paragraphs, three tokens or more.
C6_Witness ==
    /\ pc_a = "done"
    /\ PerfectTokens
    /\ Len(segments) = 2
    /\ Len(lrc_flat) >= 3
    /\ aligned[1].sentIndex = 0
    /\ aligned[Len(aligned)].sentIndex = 1
    /\ ParasOfEntry(Len(aligned) - 1) = {1}

\* ---------------------------------------- claims on the paragraph parser
\* What each line shape is, stated line by line (not computed by the parser's
\* own classifiers).
ClaimIsBlank(line) == line \in {BlankLine, <<>>}
ClaimIsTag(line) == line = TagLineM
ClaimIsTranslation(line) == line = ChineseLine
ClaimRoleSet(line) ==
    CASE line = TagLineM -> MALE
      [] line = PrefixOnlyLine -> FEMALE
      [] line = PrefixedLine -> BOY
      [] OTHER -> NoRole
\* The English content a source line brings.
ClaimEnglish(line) == IF line = PrefixedLine THEN <<"h", "i">> ELSE line

RECURSIVE AltGroups(_, _, _)
\* The number of groups of consecutive source lines closed by a translation
\* line, plus one when source lines remain at the end.  A line that is only a
\* role prefix brings no English and opens no group.
AltGroups(ls, k, open) ==
    IF k > Len(ls) THEN (IF open THEN 1 ELSE 0)
    ELSE IF ClaimIsTranslation(ls[k])
         THEN (IF open THEN 1 ELSE 0) + AltGroups(ls, k + 1, FALSE)
    ELSE IF ls[k] \in {UnknownTagLine, PrefixedLine, PlainLine}
         THEN AltGroups(ls, k + 1, TRUE)
    ELSE AltGroups(ls, k + 1, open)

\* C7 (as claimed): in alternating mode the number of paragraphs is the number
\* of groups of consecutive source lines closed by a translation line, plus
\* one if source lines remain after the last translation line.
C7_AltParagraphCount ==
    (pc_p = "done" /\ mode = "alt") =>
        Len(paragraphs) = AltGroups(text_content, 1, FALSE)

\* The lines of the document that are neither blank nor a standalone role tag.
EligibleLines ==
    LET keep(l) == ~ClaimIsBlank(l) /\ ~ClaimIsTag(l)
    IN SelectSeq(text_content, keep)

\* C8: in no-translation mode there is one paragraph per line that is
\* non-empty and not a standalone role tag, in the order of those lines.
C8_NoTransOnePerLine ==
    (pc_p = "done" /\ mode = "notrans") =>
        /\ Len(paragraphs) = Len(EligibleLines)
        /\ \A k \in 1..Len(paragraphs) :
            paragraphs[k].english = ClaimEnglish(EligibleLines[k])

\* A document with a blank line, a tag line and two different content lines.
C8_Witness ==
    /\ pc_p = "done"
    /\ mode = "notrans"
    /\ \E k \in 1..Len(text_content) : text_content[k] = BlankLine
    /\ \E k \in 1..Len(text_content) : text_content[k] = TagLineM
    /\ Len(paragraphs) = 2
    /\ paragraphs[1].english # paragraphs[2].english

RECURSIVE SplitNl(_, _, _)
\* str.split("\n")
SplitNl(s, k, cur) ==
    IF k > Len(s) THEN <<cur>>
    ELSE IF s[k] = "\n" THEN <<cur>> \o SplitNl(s, k + 1, <<>>)
    ELSE SplitNl(s, k + 1, Append(cur, s[k]))

\* The role set by the last tag line or role prefix among lines a+1..b,
\* narration when there is none.
RoleSetWithin(a, b) ==
    LET setters == {k \in (a + 1)..b : ClaimRoleSet(lines[k]) # NoRole}
    IN IF setters = {} THEN NARRATION
       ELSE ClaimRoleSet(lines[CHOOSE k \in setters : \A q \in setters : q <= k])

C10_FirstOccurrenceOrder ==
    pc_v = "done" =>
        /\ \A j, k \in 1..Len(result) : j < k =>
            (result[j] # result[k] /\ result_pos[j] < result_pos[k])
        /\ vtext = ExampleText =>
            result = << <<"i", "n", "h", "a", "b", "i", "t", "a", "n", "t">>,
                        <<"n", "e", "a", "r", "b", "y">>,
                        <<"b", "u", "i", "l", "d", "s">>,
                        <<"m", "a", "k", "e", " ", "s", "e", "n", "s", "e", " ", "o", "f">> >>

\* C11 (as claimed): the returned list never holds a term together with a
\* different phrase containing a space of which the term is a substring,
\* whichever of the two was found first and whichever markers mark them.
C11_NoTermInsidePhrase ==
    pc_v = "done" =>
        \A j, k \in 1..Len(result) :
            ~ /\ result[j] # result[k]
              /\ \E n \in 1..Len(result[k]) : result[k][n] = " "
              /\ IsSubstring(result[j], result[k])

\* ------------------------------ claims on _attach_punctuation_from_source
\* The 0-based positions at or after from where word occurs in the reference,
\* letter case aside.
ClaimOccurrences(word, from) ==
    {p \in from..Len(at_src) : OccursAt(LowerSeq(at_src), LowerSeq(word), p + 1)}

\* The punctuation characters that directly follow 0-based position e.
ClaimPunctAfter(e) ==
    LET n == CHOOSE n \in 0..(Len(at_src) - e) :
                 /\ \A j \in 1..n : at_src[e + j] \in TrailingPunct
                 /\ e + n = Len(at_src) \/ at_src[e + n + 1] \notin TrailingPunct
    IN SubSeq(at_src, e + 1, e + n)

\* 'token', or 'token' + one space + the punctuation after the occurrence at p.
ClaimAttached(word, p) ==
    LET punct == ClaimPunctAfter(p + Len(word))
    IN IF punct = <<>> THEN word ELSE word \o <<" ">> \o punct

ClaimExampleTexts ==
    << <<"s", "t", "a", "y">>, <<"c", "a", "l", "m", " ", ",">>,
       <<"p", "l", "e", "a", "s", "e", " ", ".">> >>

ClaimExampleHolds ==
    (at_source_text = AttachExampleSource /\ at_entries = MakeEntries(AttachExampleTokens))
        => [k \in 1..Len(at_result) |-> at_result[k].text] = ClaimExampleTexts

Minimum(S) == CHOOSE x \in S : \A y \in S : x <= y

\* C12 (as claimed): every entry whose bare token is found in the reference
\* text gets 'token' when no punctuation follows the occurrence and 'token',
\* a space and the punctuation run after it otherwise; the example
\* "Stay calm, please." with stay, calm, please gives stay / calm , / please .
C12_AttachedWhenFoundAnywhere ==
    pc_t = "done" =>
        /\ \A k \in 1..Len(at_cursor) :
             LET word == RStripPunct(at_entries[k].text)
             IN (at_entries[k].text # <<>> /\ ClaimOccurrences(word, 0) # {}) =>
                    \E p \in ClaimOccurrences(word, 0) :
                        at_result[k].text = ClaimAttached(word, p)
        /\ ClaimExampleHolds

\* C12 (amended): with a non-empty reference, every entry with a text whose
\* bare token occurs in the reference AT OR AFTER THE SCAN CURSOR gets
\* 'token' when no punctuation follows the first such occurrence and
\* 'token', a space and the punctuation run after it otherwise; the example
\* "Stay calm, please." with stay, calm, please gives stay / calm , / please .
C12_AttachedWhenFoundFromCursor ==
    pc_t = "done" =>
        /\ \A k \in 1..Len(at_cursor) :
             LET word == RStripPunct(at_entries[k].text)
                 occ == ClaimOccurrences(word, at_cursor[k])
             IN (at_entries[k].text # <<>> /\ occ # {}) =>
                    at_result[k].text = ClaimAttached(word, Minimum(occ))
        /\ ClaimExampleHolds

C12_Witness ==
    /\ pc_t = "done"
    /\ at_source_text = AttachExampleSource
    /\ at_entries = MakeEntries(AttachExampleTokens)
    /\ at_result[2].text = <<"c", "a", "l", "m", " ", ",">>

\* C13: an entry whose token has no occurrence at or after the cursor (or
\* that has no text) is emitted unchanged and leaves the cursor where it was;
\* every handled entry leaves the cursor at a position not smaller than
\* before; the output has the length and the order of the input.
C13_CursorMonotone ==
    /\ [][(pc_t = "loop" /\ at_k' = at_k + 1) =>
            /\ at_pos' >= at_pos
            /\ (\/ at_entries[at_k].text = <<>>
                \/ ClaimOccurrences(RStripPunct(at_entries[at_k].text), at_pos) = {})
                   => (at_pos' = at_pos /\ at_result' = Append(at_result, at_entries[at_k]))]_vars
    /\ [](pc_t = "done" =>
            /\ Len(at_result) = Len(at_entries)
            /\ \A k \in 1..Len(at_entries) :
                 /\ at_result[k].index = at_entries[k].index
                 /\ at_result[k].start = at_entries[k].start
                 /\ at_result[k].end = at_entries[k].end
            /\ \A j, k \in 1..Len(at_cursor) : j <= k => at_cursor[j] <= at_cursor[k])

\* A pass that moved the cursor on a match and then passed an entry through
\* because its token only occurs before the cursor.
C13_Witness ==
    /\ pc_t = "done"
    /\ Len(at_cursor) >= 2
    /\ at_cursor[1] = 0
    /\ at_cursor[2] > 0
    /\ at_result[2] = at_entries[2]
    /\ at_entries[2].text # <<>>
    /\ ClaimOccurrences(at_entries[2].text, 0) # {}

\* A line that is a role marker and nothing else once the marker is read.
ClaimIsMarkerOnly(text) == text = PrefixOnlyLine

\* C14 (as claimed): every returned paragraph has a non-empty english, and a
\* line whose English content is empty once the role marker is stripped (a
\* line that is only a role prefix) is dropped, never stored as a paragraph.
C14_NoParagraphWithoutEnglish ==
    pc_p = "done" =>
        \A k \in 1..Len(paragraphs) :
            /\ paragraphs[k].english # <<>>
            /\ ~ClaimIsMarkerOnly(paragraphs[k].english)

\* ----------------------------- claims on the stitcher's handling of failures
\* C15 (as claimed): when generate_tts_for_file exits, normally or by an
\* exception raised at any point, no temp segment file of the call is on disk.
C15_NoTempFileLeft ==
    pc_s \in {"done", "failed"} => disk_temps = {}

\* C16 (as claimed): when concatenation of two or more segments fails, neither
\* a partial mp3 nor a timestamps JSON of the run is at the output paths.
C16_AudioAndTimestampsTogether ==
    (pc_s = "done" /\ Len(temp_mp3s) >= 2 /\ ~mp3_out) =>
        (~mp3_partial /\ ~json_written)

\* C17: once a synthesis call has failed, no timestamp stream is written in
\* the run; a written stream holds the entries of exactly the segments whose
\* audio was produced, and nothing of a run in which a synthesis failed.
C17_NoStreamAfterSynthesisFailure ==
    /\ synth_failed => (~json_written /\ json_out = <<>>)
    /\ json_written =>
        /\ Len(json_out) = SumLens(synth, Len(synth))
        /\ {synth[k].seg : k \in 1..Len(synth)} = {temp_mp3s[k] : k \in 1..Len(temp_mp3s)}

\* A run where the second segment's synthesis fails after the first one gave
\* entries.
C17_Witness ==
    /\ pc_s = "failed"
    /\ synth_failed
    /\ Len(synth) >= 1
    /\ all_lrc # <<>>
    /\ ~json_written

\* ------------------------------------ claims on the markdown paragraph reader
\* Whether a value holds the label line of a field: a line that begins with
\* a bullet and the two asterisks of a label.
ClaimHoldsLabelLine(v) ==
    \E p \in 1..Len(v) :
        /\ p = 1 \/ v[p - 1] = "\n"
        /\ v[p] \in {"-", "*"}
        /\ OccursAt(v, <<"*", "*">>, SkipSpaces(v, p + 1))

\* C18 (as claimed): each english and chinese value ends at the next labelled
\* field line, at the first blank line or at the end of the block, so no
\* value holds another field's label line.
C18_ValuesStopAtNextField ==
    pc_m = "done" =>
        \A k \in 1..Len(md_paragraphs) :
            /\ ~ClaimHoldsLabelLine(md_paragraphs[k].english)
            /\ ~ClaimHoldsLabelLine(md_paragraphs[k].chinese)

\* The role the last role line of the written lines names; narration when
\* there is none or it names no role.
ClaimLineRole(line) ==
    CASE line = RoleLineM -> MALE
      [] line = RoleLineKing -> NARRATION
      [] OTHER -> NoRole

RECURSIVE ClaimLastRole(_, _)
ClaimLastRole(ls, k) ==
    IF k = 0 THEN NARRATION
    ELSE IF ClaimLineRole(ls[k]) # NoRole THEN ClaimLineRole(ls[k])
    ELSE ClaimLastRole(ls, k - 1)

C20_BuildParseRoundTrip ==
    (pc_m = "done" /\ expected_paragraphs # <<>>) =>
        md_paragraphs = expected_paragraphs

\* ---------------------------------------------------------------------------
\* C21  For a non-empty paragraph list build_sentences_json returns one words
\*      list per paragraph position (an empty one for a paragraph no entry was
\*      assigned to); every timestamp entry is in exactly one list, once, with
\*      its own text, and the entries of a list are in stream order.
ClaimPlaces(e) ==
    {pl \in UNION {{<<k, q>> : q \in 1..Len(sentences_json[k].words)} :
                    k \in 1..Len(sentences_json)} :
        sentences_json[pl[1]].words[pl[2]].index = e}

C21_OneListPerParagraph ==
    (pc_a = "grouped" /\ Len(segments) > 0) =>
        /\ Len(sentences_json) = Len(segments)
        /\ \A e \in 0..(Len(lrc_entries) - 1) :
              /\ Cardinality(ClaimPlaces(e)) = 1
              /\ \A pl \in ClaimPlaces(e) :
                    sentences_json[pl[1]].words[pl[2]].text = lrc_entries[e + 1].text
        /\ \A k \in 1..Len(sentences_json) :
              \A q \in 1..(Len(sentences_json[k].words) - 1) :
                    sentences_json[k].words[q].index < sentences_json[k].words[q + 1].index

C21_Witness ==
    /\ pc_a = "grouped"
    /\ Len(segments) = 2
    /\ Len(lrc_entries) = 3
    /\ sentences_json[1].words = <<>>
    /\ Len(sentences_json[2].words) = 3

\* ---------------------------------------------------------------------------
\* C24  On a mismatch the current TTS token is joined with the next k tokens,
\*      k = 1..5 in increasing order and never past the end of the token list.
\*      At the first k whose join equals the paragraph token the entries of all
\*      k+1 tokens get that paragraph's index, md_idx advances by one and lrc_i
\*      by k+1; when no k succeeds the entry gets the last matched index, lrc_i
\*      advances by one and md_idx is unchanged.
RECURSIVE ClaimJoin(_, _)
ClaimJoin(from, to) ==
    IF from > to THEN <<>> ELSE lrc_flat[from][2] \o ClaimJoin(from + 1, to)

ClaimMismatch ==
    /\ pc_a = "loop"
    /\ lrc_i < Len(lrc_flat)
    /\ md_idx < Len(md_flat)
    /\ lrc_flat[lrc_i + 1][2] # md_flat[md_idx + 1][2]

ClaimJoinHits ==
    {k \in 1..5 : /\ lrc_i + 1 + k <= Len(lrc_flat)
                  /\ ClaimJoin(lrc_i + 1, lrc_i + 1 + k) = md_flat[md_idx + 1][2]}

C24_AccumulateOrCarryForward ==
    [][ClaimMismatch =>
         IF ClaimJoinHits # {}
         THEN LET k == CHOOSE h \in ClaimJoinHits : \A g \in ClaimJoinHits : h <= g
              IN /\ \A j \in 0..k :
                      sent_index_by_entry'[lrc_flat[lrc_i + 1 + j][1]] =
                          md_flat[md_idx + 1][1]
                 /\ md_idx' = md_idx + 1
                 /\ lrc_i' = lrc_i + k + 1
         ELSE /\ sent_index_by_entry'[lrc_flat[lrc_i + 1][1]] = last_sent_index
              /\ lrc_i' = lrc_i + 1
              /\ md_idx' = md_idx]_vars

\* Six tokens of two entries were joined in one iteration (k = 5).
C24_Witness ==
    /\ pc_a = "done"
    /\ iters = 1
    /\ lrc_i = 6
    /\ md_idx = 1
    /\ Len(lrc_entries) = 2
    /\ Len(md_flat[1][2]) = 6
    /\ aligned[1].sentIndex = 0
    /\ aligned[2].sentIndex = 0

\* ---------------------------------------------------------------------------
\* C29  For a non-empty paragraph list every sentIndex the aligner records or
\*      returns lies in 0..len(paragraphs)-1, also for an entry carried forward
\*      before the first match and for one after the paragraph tokens ran out.
C29_SentIndexInRange ==
    Len(segments) > 0 =>
        /\ \A e \in DOMAIN sent_index_by_entry :
              sent_index_by_entry[e] \in 0..(Len(segments) - 1)
        /\ \A p \in 1..Len(aligned) :
              aligned[p].sentIndex \in 0..(Len(segments) - 1)

\* The first entry was carried forward before any match and the last one came
\* after the paragraph tokens were exhausted.
C29_Witness ==
    /\ pc_a = "done"
    /\ segments = <<<<"a">>, <<"b", " ", "!">>>>
    /\ lrc_entries = <<[text |-> <<"B", " ", ",">>], [text |-> <<"a", " ", "b">>],
                       [text |-> <<"a">>]>>
    /\ md_idx = Len(md_flat)
    /\ aligned[1].sentIndex = 0
    /\ aligned[2].sentIndex = 1
    /\ aligned[3].sentIndex = 1

\* ---------------------------------------------------------------------------
\* C30  The returned sentIndex values are non-decreasing in entry order, also
\*      when the list holds entries whose text is empty or punctuation only.
C30_SentIndexNonDecreasing ==
    pc_a \in {"done", "grouped"} =>
        \A p \in 1..(Len(aligned) - 1) : aligned[p].sentIndex <= aligned[p + 1].sentIndex

\* ---------------------------------------------------------------------------
\* C25  When the duration of a synthesized segment cannot be measured, the
\*      offset applied to the next segment is the segment's own offset plus the
\*      segment-local end time of its last entry; when the segment has no
\*      entries either, the offset is left as it was.
ClaimOffsetAfter(j) == IF j < Len(synth) THEN synth[j + 1].off ELSE offset_sec

C25_FallbackOffset ==
    \A j \in 1..Len(synth) :
        synth[j].dur = NoDuration =>
            ClaimOffsetAfter(j) =
                IF synth[j].local # <<>>
                THEN synth[j].off + synth[j].local[Len(synth[j].local)].end
                ELSE synth[j].off

\* A measured segment, then an unmeasured one with entries, then a third one with entries.
C25_Witness ==
    /\ pc_s = "done"
    /\ Len(synth) = 3
    /\ synth[1].dur # NoDuration
    /\ synth[2].dur = NoDuration
    /\ synth[2].local # <<>>
    /\ synth[2].off > 0
    /\ synth[3].local # <<>>
    /\ json_written

\* ---------------------------------------------------------------------------
\* C23  get_voice_for_role depends on the date only for narration: male,
\*      female, boy and girl get the same voice on every date; for narration,
\*      an empty or an unknown role the voice follows the parity of the day
\*      alone, the male voice on odd days and the female voice on even days.
ClaimFixedRoles == {"male", "female", "boy", "girl"}

ClaimCallPairs ==
    {<<voice_calls[p], voice_calls[q]>> : p, q \in 1..Len(voice_calls)}

C23_DateOnlyForNarration ==
    \A pr \in ClaimCallPairs :
        LET c == pr[1]
            d == pr[2]
        IN /\ (c.role = d.role /\ c.role \in ClaimFixedRoles) => c.voice = d.voice
           /\ (c.role \notin ClaimFixedRoles /\ d.role \notin ClaimFixedRoles
                 /\ c.odd_day = d.odd_day) => c.voice = d.voice
           /\ (c.role \notin ClaimFixedRoles /\ c.odd_day /\ d.role = "male")
                 => c.voice = d.voice
           /\ (c.role \notin ClaimFixedRoles /\ ~c.odd_day /\ d.role = "female")
                 => c.voice = d.voice
           /\ (c.role = "male" /\ d.role = "female") => c.voice # d.voice

\* The boy's voice was asked for on an odd and on an even day.
C23_Witness ==
    /\ Len(voice_calls) = 2
    /\ voice_calls[1].role = "boy"
    /\ voice_calls[2].role = "boy"
    /\ voice_calls[1].odd_day
    /\ ~voice_calls[2].odd_day
    /\ voice_calls[1].voice = voice_calls[2].voice

\* ---------------------------------------------------------------------------
\* C22  Two concurrent runs of generate_tts_for_file on two distinct documents
\*      never write, read or delete the same temp segment file or the same
\*      concat list file: the scratch names of distinct documents are distinct,
\*      also for documents of different date directories and for names that
\*      differ only in characters normalize_filename maps to '_'.
C22_ScratchFilesDisjoint ==
    \A x, y \in sc_touched : x.run # y.run => x.file # y.file

\* ---------------------------------------------------------------------------
\* C26  Role markers are removed before the bracket markers are extracted: a
\*      standalone role tag line such as [M] and a line-leading role prefix
\*      such as [F]: never appear as terms of the vocabulary list that
\*      extract_vocabulary_from_file obtains.
ClaimRoleWords ==
    { <<"n">>, <<"m">>, <<"f">>, <<"b">>, <<"g">>, <<"ZH_DU">>, <<"ZH_NAN">>, <<"ZH_NV">> }

\* The positions of the text at which a role marker opens: a bracket at the
\* start of a line, holding a role word, and closing at the end of the line
\* (a tag line) or before a colon (a prefix).
ClaimRoleMarkerStarts ==
    {p \in 1..Len(vtext) :
        /\ vtext[p] = "["
        /\ (p = 1 \/ vtext[p - 1] = "\n")
        /\ \E q \in (p + 2)..Len(vtext) :
              /\ vtext[q] = "]"
              /\ LowerSeq(SubSeq(vtext, p + 1, q - 1)) \in ClaimRoleWords
              /\ (q = Len(vtext) \/ vtext[q + 1] \in {"\n", ":"})}

C26_NoRoleMarkerAmongTerms ==
    pc_v = "done" => \A k \in 1..Len(result) : result_pos[k] \notin ClaimRoleMarkerStarts

\* ---------------------------------------------------------------------------
\* C27  For any markdown content and any non-empty expected list, the text
\*      returned by _ensure_paragraph_structure parses to exactly
\*      len(expected) paragraphs whose english and role are those of the
\*      expected list, in order: when the section is missing, when it has
\*      another paragraph count, and wherever its heading stands, the very
\*      start of the content included.
C27_FixedDocumentParsesToExpected ==
    (pc_e \in {"read", "again"} /\ ens_expected # <<>>) =>
        /\ Len(ens_parsed) = Len(ens_expected)
        /\ \A k \in 1..Len(ens_parsed) :
              /\ ens_parsed[k].english = ens_expected[k].english
              /\ ens_parsed[k].role = ens_expected[k].role

\* ---------------------------------------------------------------------------
\* C28  _ensure_paragraph_structure is idempotent: applied a second time with
\*      the same expected list it returns exactly the text the first
\*      application returned.
C28_EnsureIdempotent ==
    pc_e = "again" => ens_second = ens_first

====
